---- MODULE Spec2Model ----
(***************************************************************************)
(* Habit tracker (gv-api): the habit and log stores with their services,   *)
(* the period calculator, the target evaluator and the streak engine of    *)
(* app/habits/service.py, app/habits/repository.py, app/habits/models.py   *)
(* and app/habits/validations.py, and the two-step login of                *)
(* app/core/auth.py and app/core/security.py.                              *)
(*                                                                         *)
(* Dates are proleptic Gregorian ordinals (datetime.date.toordinal()), so  *)
(* timedelta arithmetic is integer arithmetic.  Decimal values are         *)
(* integers (a fixed number of fractional digits scaled away).  An unset   *)
(* (None / NULL) field is the empty sequence, a set one is <<v>>.          *)
(***************************************************************************)
EXTENDS Integers, Sequences, FiniteSets, Bags, TLC

VARIABLES
    habits,     \* habit table: set of rows (records with an id)
    logs,       \* habit_log table: set of rows [id, habit_id, log_date, value]
    nextHabitId, \* habit.id sequence
    nextLogId,   \* habit_log.id sequence
    reqs,       \* requests of HabitLogService between their read and their write
    last,       \* outcome of the handler that finished last
    call,       \* pure-function specifications: the call's arguments
    ret,        \* pure-function specifications: the value returned
    issued,     \* tokens create_access_token has signed with settings.secret_key
    now         \* datetime.now(TZ), in minutes

vars == <<habits, logs, nextHabitId, nextLogId, reqs, last, call, ret, issued, now>>

----------------------------------------------------------------------------
(* Optional values *)

None == << >>

Some(x) == <<x>>

IsSet(o) == o # None

Val(o) == o[1]

\* Python truthiness of an optional Decimal: None and Decimal(0) are falsy
Truthy(o) == o # None /\ o[1] # 0

----------------------------------------------------------------------------
(* datetime.date on ordinals *)

IsLeap(y) == (y % 4 = 0) /\ ((y % 100 # 0) \/ (y % 400 = 0))

DaysInMonth(y, m) ==
    CASE m \in {1, 3, 5, 7, 8, 10, 12} -> 31
      [] m \in {4, 6, 9, 11} -> 30
      [] OTHER -> IF IsLeap(y) THEN 29 ELSE 28

RECURSIVE DaysBeforeMonth(_, _)
DaysBeforeMonth(y, m) ==
    IF m <= 1 THEN 0 ELSE DaysBeforeMonth(y, m - 1) + DaysInMonth(y, m - 1)

DaysBeforeYear(y) ==
    (y - 1) * 365 + ((y - 1) \div 4) - ((y - 1) \div 100) + ((y - 1) \div 400)

\* date(y, m, d).toordinal()
Ymd2Ord(y, m, d) == DaysBeforeYear(y) + DaysBeforeMonth(y, m) + d

\* date.fromordinal(n).year
Year(n) ==
    LET n0   == n - 1
        n400 == n0 \div 146097
        r400 == n0 % 146097
        n100 == r400 \div 36524
        r100 == r400 % 36524
        n4   == r100 \div 1461
        r4   == r100 % 1461
        n1   == r4 \div 365
        y    == n400 * 400 + n100 * 100 + n4 * 4 + n1 + 1
    IN  IF n1 = 4 \/ n100 = 4 THEN y - 1 ELSE y

\* date.fromordinal(n).month
Month(n) ==
    LET y   == Year(n)
        doy == n - DaysBeforeYear(y)
    IN  CHOOSE m \in 1..12 :
            /\ DaysBeforeMonth(y, m) < doy
            /\ doy <= DaysBeforeMonth(y, m) + DaysInMonth(y, m)

\* date.fromordinal(n).day
Day(n) == n - DaysBeforeYear(Year(n)) - DaysBeforeMonth(Year(n), Month(n))

\* date.weekday(): Monday is 0
Weekday(n) == (n + 6) % 7

----------------------------------------------------------------------------
(* Enumerations: app/habits/enums.py *)

TargetFrequency == {"daily", "weekly", "monthly"}

ValueType == {"boolean", "numeric"}

ComparisonType ==
    {"equals", "greater_than", "less_than", "greater_equal_than",
     "less_equal_than", "in_range"}

----------------------------------------------------------------------------
(* Period calculator *)

\* a variant of _get_period_boundaries whose months all end like December, on day 31
GetPeriodBoundariesDay31(frequency, target_date) ==
    CASE frequency = "daily" -> <<target_date, target_date>>
      [] frequency = "weekly" ->
            LET start == target_date - Weekday(target_date)
            IN  <<start, start + 6>>
      [] OTHER ->
            LET start == Ymd2Ord(Year(target_date), Month(target_date), 1)
            IN  <<start, start + 30>>

\* HabitService._get_period_boundaries: <<start, end>>
GetPeriodBoundaries(frequency, target_date) ==
    CASE frequency = "daily" -> <<target_date, target_date>>
      [] frequency = "weekly" ->
            LET start == target_date - Weekday(target_date)
            IN  <<start, start + 6>>
      [] frequency = "monthly" ->
            LET y     == Year(target_date)
                m     == Month(target_date)
                start == Ymd2Ord(y, m, 1)
                end   == IF m = 12 THEN Ymd2Ord(y, m, 31)
                                   ELSE Ymd2Ord(y, m + 1, 1) - 1
            IN  <<start, end>>
      [] OTHER -> <<target_date, target_date>>

\* HabitService._dates_in_range (the list's elements)
DatesInRange(start, end) == start..end

\* the while loop of _get_periods_ago: <<year, month>> with month brought into 1..12
RECURSIVE MonthsBack(_, _)
MonthsBack(year, month) ==
    IF month <= 0 THEN MonthsBack(year - 1, month + 12) ELSE <<year, month>>

\* HabitService._get_periods_ago
GetPeriodsAgo(frequency, target_date, periods) ==
    CASE frequency = "daily" -> target_date - periods
      [] frequency = "weekly" -> target_date - 7 * periods
      [] frequency = "monthly" ->
            LET ym == MonthsBack(Year(target_date), Month(target_date) - periods)
            IN  Ymd2Ord(ym[1], ym[2], 1)
      [] OTHER -> target_date - periods

\* a variant of _count_periods_between that counts whole weeks of seven days
CountPeriodsBetweenWholeWeeks(frequency, start_date, end_date) ==
    IF end_date < start_date
    THEN 0
    ELSE CASE frequency = "daily" -> (end_date - start_date) + 1
           [] frequency = "weekly" -> ((end_date - start_date) \div 7) + 1
           [] OTHER ->
                 (Year(end_date) - Year(start_date)) * 12
                 + Month(end_date) - Month(start_date) + 1

\* HabitService._count_periods_between
CountPeriodsBetween(frequency, start_date, end_date) ==
    IF end_date < start_date
    THEN 0
    ELSE CASE frequency = "daily" -> (end_date - start_date) + 1
           [] frequency = "weekly" ->
                 LET start_week == start_date - Weekday(start_date)
                     end_week   == end_date - Weekday(end_date)
                 IN  ((end_week - start_week) \div 7) + 1
           [] frequency = "monthly" ->
                 (Year(end_date) - Year(start_date)) * 12
                 + Month(end_date) - Month(start_date) + 1

\* the while loop of HabitService._generate_periods
RECURSIVE GeneratePeriodsFrom(_, _, _, _)
GeneratePeriodsFrom(frequency, current, end_date, periods) ==
    IF current > end_date
    THEN periods
    ELSE LET pb == GetPeriodBoundaries(frequency, current)
         IN  IF pb[1] > end_date
             THEN periods
             ELSE GeneratePeriodsFrom(
                      frequency, pb[2] + 1, end_date,
                      Append(periods,
                             <<pb[1], IF pb[2] < end_date THEN pb[2] ELSE end_date>>))

\* HabitService._generate_periods: the list of <<period_start, period_end>>
GeneratePeriods(frequency, start_date, end_date) ==
    GeneratePeriodsFrom(frequency, start_date, end_date, << >>)

----------------------------------------------------------------------------
(* Streak engine *)

\* the safety limit of the backward walk: "streak > 1000"
StreakLimit == 1000

\* the safety limit of the backward walk: "check_date.year < 2000"
YearFloor == 2000

\* any(d in dates for d in self._dates_in_range(period_start, period_end))
PeriodHas(dates, period_start, period_end) ==
    \E d \in DatesInRange(period_start, period_end) : d \in dates

\* a variant of IsStrict that takes the lenient branch for a required habit
IsStrictInverted(habit) == ~habit.is_required

\* the lenient branch is taken for a habit that is not required
IsStrict(habit) == habit.is_required

\* "Move to previous period"
PreviousCheckDate(period_start) == period_start - 1

\* "Safety limit"
SafetyLimitHit(streak, check_date) ==
    streak > StreakLimit \/ Year(check_date) < YearFloor

\* a variant of CurrentStreakBreaks without the stop before the first log
CurrentStreakBreaksUnstopped(habit, dates_met, all_log_dates, min_log_date, period_start, period_end) ==
    IF PeriodHas(dates_met, period_start, period_end)
    THEN FALSE
    ELSE IF habit.is_required
         THEN TRUE
         ELSE PeriodHas(all_log_dates, period_start, period_end)

\* a variant of CurrentStreakBreaks that looks for a log of a lenient habit before
\* it looks for a met target
CurrentStreakBreaksLoggedFirst(habit, dates_met, all_log_dates, min_log_date, period_start, period_end) ==
    IF ~IsStrict(habit) /\ PeriodHas(all_log_dates, period_start, period_end)
    THEN TRUE
    ELSE IF PeriodHas(dates_met, period_start, period_end)
         THEN FALSE
         ELSE IF IsStrict(habit)
              THEN TRUE
              ELSE period_end < min_log_date

\* one pass of the while loop of _calculate_current_streak decides a break
CurrentStreakBreaks(habit, dates_met, all_log_dates, min_log_date, period_start, period_end) ==
    IF PeriodHas(dates_met, period_start, period_end)
    THEN FALSE
    ELSE IF IsStrict(habit)
         THEN TRUE
         ELSE IF PeriodHas(all_log_dates, period_start, period_end)
              THEN TRUE
              ELSE period_end < min_log_date

\* the while loop of HabitService._calculate_current_streak
RECURSIVE CurrentStreakWalk(_, _, _, _, _, _)
CurrentStreakWalk(habit, dates_met, all_log_dates, min_log_date, check_date, streak) ==
    LET pb           == GetPeriodBoundaries(habit.frequency, check_date)
        period_start == pb[1]
        period_end   == pb[2]
        next_date    == PreviousCheckDate(period_start)
    IN  IF CurrentStreakBreaks(habit, dates_met, all_log_dates, min_log_date,
                               period_start, period_end)
        THEN streak
        ELSE IF SafetyLimitHit(streak + 1, next_date)
             THEN streak + 1
             ELSE CurrentStreakWalk(habit, dates_met, all_log_dates, min_log_date,
                                    next_date, streak + 1)

SetMin(S) == CHOOSE x \in S : \A y \in S : x <= y

SetMax(S) == CHOOSE x \in S : \A y \in S : x >= y

\* HabitService._calculate_current_streak
CalculateCurrentStreak(habit, today, dates_met, all_log_dates) ==
    LET min_log_date == IF all_log_dates # {} THEN SetMin(all_log_dates) ELSE today
    IN  CurrentStreakWalk(habit, dates_met, all_log_dates, min_log_date, today, 0)

\* a variant of LongestStreakCounter in which a logged period of a lenient habit
\* that missed its target does not reset the counter
LongestStreakCounterUnreset(habit, dates_met, all_log_dates, period_start, period_end, current) ==
    IF PeriodHas(dates_met, period_start, period_end)
    THEN current + 1
    ELSE IF habit.is_required
         THEN 0
         ELSE IF PeriodHas(all_log_dates, period_start, period_end)
              THEN current
              ELSE current + 1

\* a variant of LongestStreakCounter that counts met periods only
LongestStreakCounterMetOnly(habit, dates_met, all_log_dates, period_start, period_end, current) ==
    IF PeriodHas(dates_met, period_start, period_end) THEN current + 1 ELSE 0

\* the running counter of _calculate_longest_streak after one period
LongestStreakCounter(habit, dates_met, all_log_dates, period_start, period_end, current) ==
    IF PeriodHas(dates_met, period_start, period_end)
    THEN current + 1
    ELSE IF IsStrict(habit)
         THEN 0
         ELSE IF PeriodHas(all_log_dates, period_start, period_end)
              THEN 0
              ELSE current + 1

\* the while loop of HabitService._calculate_longest_streak
RECURSIVE LongestStreakWalk(_, _, _, _, _, _, _)
LongestStreakWalk(habit, dates_met, all_log_dates, max_date, check_date, current, longest) ==
    IF check_date > max_date
    THEN longest
    ELSE LET pb       == GetPeriodBoundaries(habit.frequency, check_date)
             current1 == LongestStreakCounter(habit, dates_met, all_log_dates,
                                              pb[1], pb[2], current)
             longest1 == IF current1 > longest THEN current1 ELSE longest
         IN  LongestStreakWalk(habit, dates_met, all_log_dates, max_date,
                               pb[2] + 1, current1, longest1)

\* HabitService._calculate_longest_streak
CalculateLongestStreak(habit, dates_met, all_log_dates) ==
    IF dates_met = {}
    THEN 0
    ELSE LongestStreakWalk(habit, dates_met, all_log_dates, SetMax(dates_met),
                           SetMin(dates_met), 0, 0)

\* HabitService._calculate_streaks: <<current_streak, longest_streak>>
CalculateStreaks(habit, today, dates_met, all_log_dates) ==
    IF dates_met = {}
    THEN <<0, 0>>
    ELSE <<CalculateCurrentStreak(habit, today, dates_met, all_log_dates),
           CalculateLongestStreak(habit, dates_met, all_log_dates)>>

----------------------------------------------------------------------------
(* Target evaluator *)

\* a variant of _check_target_met whose greater_equal_than is a strict comparison
CheckTargetMetStrictly(habit, value) ==
    IF habit.value_type = "boolean"
    THEN value = 1
    ELSE IF habit.comparison_type = None \/ habit.target_value = None
         THEN TRUE
         ELSE LET cmp == Val(habit.comparison_type)
                  tv  == Val(habit.target_value)
              IN  CASE cmp = "equals" -> value = tv
                    [] cmp = "greater_than" -> value > tv
                    [] cmp = "less_than" -> value < tv
                    [] cmp = "greater_equal_than" -> value > tv
                    [] cmp = "less_equal_than" -> value <= tv
                    [] cmp = "in_range" ->
                          IF habit.target_min = None \/ habit.target_max = None
                          THEN TRUE
                          ELSE Val(habit.target_min) <= value
                               /\ value <= Val(habit.target_max)

\* HabitService._check_target_met
CheckTargetMet(habit, value) ==
    IF habit.value_type = "boolean"
    THEN value = 1
    ELSE IF habit.comparison_type = None \/ habit.target_value = None
         THEN TRUE
         ELSE LET cmp == Val(habit.comparison_type)
                  tv  == Val(habit.target_value)
              IN  CASE cmp = "equals" -> value = tv
                    [] cmp = "greater_than" -> value > tv
                    [] cmp = "less_than" -> value < tv
                    [] cmp = "greater_equal_than" -> value >= tv
                    [] cmp = "less_equal_than" -> value <= tv
                    [] cmp = "in_range" ->
                          IF habit.target_min = None \/ habit.target_max = None
                          THEN TRUE
                          ELSE Val(habit.target_min) <= value
                               /\ value <= Val(habit.target_max)

----------------------------------------------------------------------------
(* Sanitization and validation: app/common/validations.py,
   app/habits/validations.py, app/habits/models.py.
   A name is a sequence of characters. *)

NAME_MAX_LENGTH == 25

\* html.escape of one character (quote=True)
EscapeChar(c) ==
    CASE c = "&" -> <<"&", "a", "m", "p", ";">>
      [] c = "<" -> <<"&", "l", "t", ";">>
      [] c = ">" -> <<"&", "g", "t", ";">>
      [] c = "\"" -> <<"&", "q", "u", "o", "t", ";">>
      [] c = "'" -> <<"&", "#", "x", "2", "7", ";">>
      [] OTHER -> <<c>>

\* html.escape
RECURSIVE HtmlEscape(_)
HtmlEscape(name) ==
    IF name = << >> THEN << >> ELSE EscapeChar(Head(name)) \o HtmlEscape(Tail(name))

\* str.strip
RECURSIVE Strip(_)
Strip(name) ==
    IF name = << >> THEN << >>
    ELSE IF Head(name) = " " THEN Strip(Tail(name))
    ELSE IF name[Len(name)] = " " THEN Strip(SubSeq(name, 1, Len(name) - 1))
    ELSE name

\* sanitize_name: the sanitized name, None when it raises ValueError
SanitizeName(name) ==
    LET value == HtmlEscape(Strip(name))
    IN  IF value = << >> THEN None
        ELSE IF Len(value) > NAME_MAX_LENGTH THEN None
        ELSE Some(value)

\* validate_target_config: TRUE when it returns, FALSE when it raises ValueError
ValidateTargetConfig(value_type, comparison_type, target_value, target_min, target_max) ==
    IF value_type = "boolean"
    THEN IF Truthy(target_value) \/ Truthy(target_min) \/ Truthy(target_max)
         THEN FALSE
         ELSE IF comparison_type # None /\ comparison_type # Some("equals")
              THEN FALSE
              ELSE TRUE
    ELSE IF comparison_type = Some("in_range")
         THEN IF target_min = None \/ target_max = None
              THEN FALSE
              ELSE IF Val(target_min) >= Val(target_max)
                   THEN FALSE
                   ELSE TRUE
         ELSE IF comparison_type # None
                 /\ Val(comparison_type) \in {"equals", "greater_than", "less_than",
                                              "greater_equal_than", "less_equal_than"}
              THEN target_value # None
              ELSE TRUE

\* Habit.validate_target_config, called by _validate_habit_before_persist
HabitValidBeforePersist(row) ==
    ValidateTargetConfig(row.value_type, row.comparison_type, row.target_value,
                         row.target_min, row.target_max)

\* HabitLog.validate_value_for_type: TRUE when it returns, FALSE when it raises
ValidateValueForType(value_type, value) ==
    IF value_type = "boolean" /\ value \notin {0, 1}
    THEN FALSE
    ELSE IF value_type = "numeric" /\ value < 0
         THEN FALSE
         ELSE TRUE

----------------------------------------------------------------------------
(* Repositories: app/common/repository.py, app/habits/repository.py *)

\* scalars().first() of a result set
First(rows) == IF rows = {} THEN None ELSE Some(CHOOSE r \in rows : TRUE)

\* a variant of HabitRepository.get without the filter on the id
HabitGetAny(habit_id) == First(habits)

\* HabitRepository.get
HabitGet(habit_id) == First({h \in habits : h.id = habit_id})

\* HabitRepository.get_by_name
HabitGetByName(name) == First({h \in habits : h.name = name})

\* HabitLogRepository.get
LogGet(log_id) == First({l \in logs : l.id = log_id})

\* a variant of get_by_habit_and_date that looks the log up by its date alone
LogGetByDate(habit_id, log_date) ==
    First({l \in logs : l.log_date = log_date})

\* HabitLogRepository.get_by_habit_and_date
LogGetByHabitAndDate(habit_id, log_date) ==
    First({l \in logs : l.habit_id = habit_id /\ l.log_date = log_date})

----------------------------------------------------------------------------
(* HabitService: create, update, delete.  The steps of the schemas that carry no
   column of the Habit model (big_step, small_step) are left out. *)

\* largest habit.id the sequence hands out
MaxHabitId == 2

\* the outcome of a handler of HabitService
HabitOutcome(op, habit_id, outcome) ==
    Some([op |-> op, habit_id |-> habit_id, outcome |-> outcome])

\* the row HabitService.create builds: Habit(**data.model_dump()), the name having
\* passed HabitBase._sanitize_name and passing Habit._validate_name
HabitRowOf(data, schema_name, id) ==
    [data EXCEPT !.name = Val(SanitizeName(schema_name))] @@ [id |-> id]

\* POST /habits: HabitCreate validation, HabitService.create, BaseRepository.create
HabitCreate(data) ==
    /\ nextHabitId <= MaxHabitId
    /\ LET schema_name == SanitizeName(data.name)
       IN  IF \/ schema_name = None
              \/ ~ValidateTargetConfig(data.value_type, data.comparison_type,
                                       data.target_value, data.target_min,
                                       data.target_max)
           THEN /\ last' = HabitOutcome("HabitService.create", 0, "RequestValidationError")
                /\ UNCHANGED <<habits, nextHabitId>>
           ELSE IF HabitGetByName(Val(schema_name)) # None
           THEN /\ last' = HabitOutcome("HabitService.create", 0, "ConflictError")
                /\ UNCHANGED <<habits, nextHabitId>>
           ELSE IF SanitizeName(Val(schema_name)) = None
           THEN /\ last' = HabitOutcome("HabitService.create", 0, "ValueError")
                /\ UNCHANGED <<habits, nextHabitId>>
           ELSE LET row == HabitRowOf(data, Val(schema_name), nextHabitId)
                IN  IF ~HabitValidBeforePersist(row)
                    THEN /\ last' = HabitOutcome("HabitService.create", 0, "ValueError")
                         /\ UNCHANGED <<habits, nextHabitId>>
                    ELSE /\ habits' = habits \cup {row}
                         /\ nextHabitId' = nextHabitId + 1
                         /\ last' = HabitOutcome("HabitService.create", nextHabitId, "ok")
    /\ UNCHANGED <<logs, nextLogId, reqs, call, ret, issued, now>>

\* the row after "for key, value in update_data.items(): setattr(habit, key, value)",
\* the name passing Habit._validate_name
HabitWithUpdate(habit, data, schema_name) ==
    [f \in DOMAIN habit |->
        IF f \in DOMAIN data
        THEN IF f = "name" THEN Val(SanitizeName(schema_name)) ELSE data[f]
        ELSE habit[f]]

\* PATCH /habits/{habit_id}: HabitUpdate validation, HabitService.update,
\* BaseRepository.update; data holds the fields the request sets
\* (model_dump(exclude_unset=True))
HabitUpdate(habit_id, data) ==
    /\ LET named       == "name" \in DOMAIN data
           schema_name == IF named THEN SanitizeName(data.name) ELSE None
           found       == HabitGet(habit_id)
       IN  IF named /\ schema_name = None
           THEN /\ last' = HabitOutcome("HabitService.update", habit_id,
                                        "RequestValidationError")
                /\ UNCHANGED habits
           ELSE IF found = None
           THEN /\ last' = HabitOutcome("HabitService.update", habit_id, "NotFoundError")
                /\ UNCHANGED habits
           ELSE IF /\ named
                   /\ Val(schema_name) # Val(found).name
                   /\ HabitGetByName(Val(schema_name)) # None
           THEN /\ last' = HabitOutcome("HabitService.update", habit_id, "ConflictError")
                /\ UNCHANGED habits
           ELSE IF named /\ SanitizeName(Val(schema_name)) = None
           THEN /\ last' = HabitOutcome("HabitService.update", habit_id, "ValueError")
                /\ UNCHANGED habits
           ELSE LET row == HabitWithUpdate(Val(found), data,
                                           IF named THEN Val(schema_name) ELSE << >>)
                IN  IF ~HabitValidBeforePersist(row)
                    THEN /\ last' = HabitOutcome("HabitService.update", habit_id,
                                                 "ValueError")
                         /\ UNCHANGED habits
                    ELSE /\ habits' = (habits \ {Val(found)}) \cup {row}
                         /\ last' = HabitOutcome("HabitService.update", habit_id, "ok")
    /\ UNCHANGED <<logs, nextHabitId, nextLogId, reqs, call, ret, issued, now>>

\* Session.delete of a habit: the logs relationship has no delete cascade, so the
\* unit of work sets habit_id of the habit's logs to NULL, which the NOT NULL
\* column refuses; TRUE when the flush succeeds
HabitDeleteFlushes(habit_id) == ~\E l \in logs : l.habit_id = habit_id

\* DELETE /habits/{habit_id}: HabitService.delete, BaseRepository.delete
HabitDelete(habit_id) ==
    /\ LET found == HabitGet(habit_id)
       IN  IF found = None
           THEN /\ last' = HabitOutcome("HabitService.delete", habit_id, "NotFoundError")
                /\ UNCHANGED habits
           ELSE IF ~HabitDeleteFlushes(habit_id)
           THEN /\ last' = HabitOutcome("HabitService.delete", habit_id, "IntegrityError")
                /\ UNCHANGED habits
           ELSE /\ habits' = habits \ {Val(found)}
                /\ last' = HabitOutcome("HabitService.delete", habit_id, "ok")
    /\ UNCHANGED <<logs, nextHabitId, nextLogId, reqs, call, ret, issued, now>>

----------------------------------------------------------------------------
(* HabitLogService: create, update, delete, upsert, modify.  A handler reads
   (the habit, the existing log) and then writes; LogRead and LogWrite are the two
   halves, run in one step by LogServe and in two by LogBegin and LogFinish. *)

\* largest habit_log.id the sequence hands out
MaxLogId == 2

\* largest value a stored log grows to
MaxLogValue == 2

\* HabitLogService._validate_log_date: TRUE when it returns, FALSE when it raises
ValidateLogDate(habit, log_date) ==
    IF habit.start_date # None /\ log_date < Val(habit.start_date)
    THEN FALSE
    ELSE IF habit.end_date # None /\ log_date > Val(habit.end_date)
         THEN FALSE
         ELSE TRUE

\* a habit_log table without the unique constraint
UniqueViolationUnchecked(row) == FALSE

\* UniqueConstraint("habit_id", "log_date", name="uq_habit_log_date"): the row
\* collides with another row of the table
UniqueViolation(row) ==
    \E l \in logs :
        l.id # row.id /\ l.habit_id = row.habit_id /\ l.log_date = row.log_date

\* ForeignKey("habit.id"): the row names no stored habit
ForeignKeyViolation(row) == HabitGet(row.habit_id) = None

\* _validate_habit_log_before_persist: TRUE when it returns, FALSE when it raises
LogValidBeforePersist(row) ==
    LET found == HabitGet(row.habit_id)
    IN  IF found # None
        THEN ValidateValueForType(Val(found).value_type, row.value)
        ELSE TRUE

NoLogData == [log_date |-> None, value |-> None]

\* the arguments of a handler of HabitLogService
LogArgs(op, habit_id, log_date, value, log_id, data) ==
    [op |-> op, habit_id |-> habit_id, log_date |-> log_date, value |-> value,
     log_id |-> log_id, data |-> data]

\* the reads of a handler: [outcome, existing]
LogRead(args) ==
    IF args.op \in {"create", "upsert", "modify"}
    THEN LET found == HabitGet(args.habit_id)
         IN  IF found = None
             THEN [outcome |-> "NotFoundError", existing |-> None]
             ELSE IF ~ValidateLogDate(Val(found), args.log_date)
             THEN [outcome |-> "ValidationError", existing |-> None]
             ELSE LET existing == LogGetByHabitAndDate(args.habit_id, args.log_date)
                  IN  IF args.op = "create" /\ existing # None
                      THEN [outcome |-> "ConflictError", existing |-> existing]
                      ELSE [outcome |-> "ok", existing |-> existing]
    ELSE LET existing == LogGet(args.log_id)
         IN  IF existing = None
             THEN [outcome |-> "NotFoundError", existing |-> None]
             ELSE [outcome |-> "ok", existing |-> existing]

\* the entity a handler hands to the repository, from the row it read
LogEntity(args, existing) ==
    IF existing = None
    THEN [id |-> nextLogId, habit_id |-> args.habit_id, log_date |-> args.log_date,
          value |-> args.value]
    ELSE CASE args.op = "upsert" -> [Val(existing) EXCEPT !.value = args.value]
           [] args.op = "modify" -> [Val(existing) EXCEPT !.value = @ + args.value]
           [] args.op = "update" ->
                 [Val(existing) EXCEPT
                    !.log_date = IF args.data.log_date # None
                                 THEN Val(args.data.log_date) ELSE @,
                    !.value = IF args.data.value # None
                              THEN Val(args.data.value) ELSE @]
           [] OTHER -> Val(existing)

\* setattr was called on the entity, which marks it dirty
LogEntityDirty(args) ==
    \/ args.op \in {"upsert", "modify"}
    \/ args.op = "update" /\ (args.data.log_date # None \/ args.data.value # None)

\* BaseRepository.create of a log: [outcome, logs, log_id]
LogInsert(row) ==
    IF ~LogValidBeforePersist(row)
    THEN [outcome |-> "ValueError", logs |-> logs, log_id |-> 0]
    ELSE IF ForeignKeyViolation(row) \/ UniqueViolation(row)
    THEN [outcome |-> "IntegrityError", logs |-> logs, log_id |-> 0]
    ELSE [outcome |-> "ok", logs |-> logs \cup {row}, log_id |-> row.id]

\* BaseRepository.update of a log read as row `old`: the UPDATE sets the columns
\* that changed on the row with that id; [outcome, logs, log_id]
LogUpdate(old, entity, dirty) ==
    LET current == LogGet(old.id)
    IN  IF dirty /\ ~LogValidBeforePersist(entity)
        THEN [outcome |-> "ValueError", logs |-> logs, log_id |-> 0]
        ELSE IF current = None
        THEN [outcome |-> IF entity = old THEN "InvalidRequestError"
                                          ELSE "StaleDataError",
              logs |-> logs, log_id |-> 0]
        ELSE LET row == [Val(current) EXCEPT
                           !.log_date = IF entity.log_date # old.log_date
                                        THEN entity.log_date ELSE @,
                           !.value = IF entity.value # old.value
                                     THEN entity.value ELSE @]
             IN  IF row # Val(current) /\ UniqueViolation(row)
                 THEN [outcome |-> "IntegrityError", logs |-> logs, log_id |-> 0]
                 ELSE [outcome |-> "ok",
                       logs |-> (logs \ {Val(current)}) \cup {row},
                       log_id |-> old.id]

\* BaseRepository.delete of a log read as row `old`: [outcome, logs, log_id]
LogDelete(old) ==
    [outcome |-> "ok", logs |-> {l \in logs : l.id # old.id}, log_id |-> old.id]

\* the writes of a handler whose reads returned `existing`: [outcome, logs, log_id]
LogWrite(args, existing) ==
    IF existing = None
    THEN LogInsert(LogEntity(args, existing))
    ELSE IF args.op = "delete"
         THEN LogDelete(Val(existing))
         ELSE LogUpdate(Val(existing), LogEntity(args, existing), LogEntityDirty(args))

\* the outcome of a handler of HabitLogService
LogOutcome(args, existing, outcome, log_id) ==
    Some([op |-> args.op, habit_id |-> args.habit_id, log_date |-> args.log_date,
          value |-> args.value, log_id |-> log_id,
          existing_id |-> IF existing = None THEN 0 ELSE Val(existing).id,
          outcome |-> outcome])

\* a whole handler of HabitLogService, run without interruption
LogServe(args) ==
    /\ LET r == LogRead(args)
       IN  IF r.outcome # "ok"
           THEN /\ last' = LogOutcome(args, r.existing, r.outcome, 0)
                /\ UNCHANGED <<logs, nextLogId>>
           ELSE LET w == LogWrite(args, r.existing)
                IN  /\ \A l \in w.logs : l.id <= MaxLogId /\ l.value <= MaxLogValue
                    /\ logs' = w.logs
                    /\ nextLogId' = IF r.existing = None /\ w.outcome = "ok"
                                    THEN nextLogId + 1 ELSE nextLogId
                    /\ last' = LogOutcome(args, r.existing, w.outcome, w.log_id)
    /\ UNCHANGED <<habits, nextHabitId, reqs, call, ret, issued, now>>

\* requests between their read and their write
MaxInFlight == 2

\* the first half of a handler: its reads; a request that passes them is in flight
LogBegin(args) ==
    /\ BagCardinality(reqs) < MaxInFlight
    /\ LET r == LogRead(args)
       IN  IF r.outcome # "ok"
           THEN /\ last' = LogOutcome(args, r.existing, r.outcome, 0)
                /\ UNCHANGED reqs
           ELSE /\ reqs' = reqs (+) SetToBag({[args |-> args, existing |-> r.existing]})
                /\ UNCHANGED last
    /\ UNCHANGED <<habits, logs, nextHabitId, nextLogId, call, ret, issued, now>>

\* the second half of a handler: its write and commit
LogFinish(req) ==
    /\ BagIn(req, reqs)
    /\ LET w == LogWrite(req.args, req.existing)
       IN  /\ \A l \in w.logs : l.id <= MaxLogId /\ l.value <= MaxLogValue
           /\ logs' = w.logs
           /\ nextLogId' = IF req.existing = None /\ w.outcome = "ok"
                           THEN nextLogId + 1 ELSE nextLogId
           /\ last' = LogOutcome(req.args, req.existing, w.outcome, w.log_id)
    /\ reqs' = reqs (-) SetToBag({req})
    /\ UNCHANGED <<habits, nextHabitId, call, ret, issued, now>>

----------------------------------------------------------------------------
(* Store-side period grouping *)

\* HabitLogRepository._get_period_truncation: date_trunc('week' | 'month', log_date)
PeriodTruncation(frequency, log_date) ==
    IF frequency = "weekly"
    THEN log_date - Weekday(log_date)
    ELSE IF frequency = "monthly"
         THEN Ymd2Ord(Year(log_date), Month(log_date), 1)
         ELSE log_date


\* SUM(habit_log.value) over rows
RECURSIVE SumValues(_)
SumValues(rows) ==
    IF rows = {}
    THEN 0
    ELSE LET r == CHOOSE x \in rows : TRUE
         IN  r.value + SumValues(rows \ {r})

\* a variant of get_active_habits without the filter on end_date
GetActiveHabitsStarted(target_date) ==
    {h \in habits : h.start_date = None \/ Val(h.start_date) <= target_date}

\* HabitRepository.get_active_habits
GetActiveHabits(target_date) ==
    {h \in habits :
        /\ h.start_date = None \/ Val(h.start_date) <= target_date
        /\ h.end_date = None \/ Val(h.end_date) >= target_date}

\* a variant of get_period_sum that sums the logs of the first day of the range
GetPeriodSumOfStart(habit_id, start_date, end_date) ==
    SumValues({l \in logs : l.habit_id = habit_id /\ l.log_date = start_date})

\* HabitLogRepository.get_period_sum
GetPeriodSum(habit_id, start_date, end_date) ==
    SumValues({l \in logs : /\ l.habit_id = habit_id
                            /\ l.log_date >= start_date
                            /\ l.log_date <= end_date})

\* HabitLogRepository.get_value_for_date
GetValueForDate(habit_id, target_date) ==
    LET found == First({l \in logs : l.habit_id = habit_id /\ l.log_date = target_date})
    IN  IF found = None THEN None ELSE Some(Val(found).value)

\* HabitLogRepository._build_comparison_expression, on the period sum `value`
BuildComparisonExpression(habit, value) ==
    IF habit.comparison_type = None
    THEN IF habit.target_value # None
         THEN value >= Val(habit.target_value)
         ELSE TRUE
    ELSE LET cmp == Val(habit.comparison_type)
         IN  CASE cmp = "in_range" ->
                    IF habit.target_min = None \/ habit.target_max = None
                    THEN TRUE
                    ELSE value >= Val(habit.target_min) /\ value <= Val(habit.target_max)
               \* no sum satisfies a comparison with a NULL target_value
               [] cmp # "in_range" /\ habit.target_value = None -> FALSE
               [] cmp = "equals" -> value = Val(habit.target_value)
               [] cmp = "greater_than" -> value > Val(habit.target_value)
               [] cmp = "less_than" -> value < Val(habit.target_value)
               [] cmp = "greater_equal_than" -> value >= Val(habit.target_value)
               [] cmp = "less_equal_than" -> value <= Val(habit.target_value)
               [] OTHER -> TRUE

\* HabitLogRepository.get_dates_with_target_met, start_date an optional date
GetDatesWithTargetMet(habit, start_date) ==
    LET rows   == {l \in logs : /\ l.habit_id = habit.id
                                /\ start_date = None \/ l.log_date >= Val(start_date)}
        period(l) == PeriodTruncation(habit.frequency, l.log_date)
    IN  {p \in {period(l) : l \in rows} :
            BuildComparisonExpression(habit, SumValues({l \in rows : period(l) = p}))}

\* HabitLogRepository.get_all_log_dates
GetAllLogDates(habit_id) == {l.log_date : l \in {k \in logs : k.habit_id = habit_id}}

\* "Calculate stats for last 30 periods (excluding current period)"
StatsPeriods == 30

\* Decimal.quantize of num / den to an integer, ROUND_HALF_EVEN; num >= 0, den > 0
RoundHalfEven(num, den) ==
    LET q == num \div den
        r == num % den
    IN  IF 2 * r < den
        THEN q
        ELSE IF 2 * r > den
             THEN q + 1
             ELSE IF q % 2 = 0 THEN q ELSE q + 1

\* HabitLogRepository.get_stats_for_habit: <<total_logs, average_value,
\* periods_met>>, the average in hundredths (quantize(Decimal("0.01")))
GetStatsForHabit(habit, start_date, end_date) ==
    LET rows == {l \in logs : /\ l.habit_id = habit.id
                              /\ l.log_date >= start_date
                              /\ l.log_date <= end_date}
        successful_dates == GetDatesWithTargetMet(habit, Some(start_date))
    IN  <<Cardinality(rows),
          IF rows = {}
          THEN None
          ELSE Some(RoundHalfEven(100 * SumValues(rows), Cardinality(rows))),
          Cardinality({d \in successful_dates : d <= end_date})>>

\* stats_start, stats_end and the expected_periods of _calculate_habit_stats
StatsWindow(frequency, today) ==
    LET period      == GetPeriodBoundaries(frequency, today)
        stats_start == GetPeriodsAgo(frequency, today, StatsPeriods)
        stats_end   == period[1] - 1
    IN  [stats_start |-> stats_start,
         stats_end |-> stats_end,
         expected_periods |-> CountPeriodsBetween(frequency, stats_start, stats_end)]

\* a variant of has_objective that looks at target_value alone
HasObjectiveTargetOnly(habit) == habit.target_value # None

\* has_objective of _calculate_habit_stats
HasObjective(habit) == habit.target_value # None \/ habit.comparison_type # None

\* avg_value and avg_completion of _calculate_habit_stats: <<average in hundredths,
\* completion rate in tenths of a percent (quantize(Decimal("0.1")))>>
HabitAverages(habit, today) ==
    LET window == StatsWindow(habit.frequency, today)
    IN  IF window.stats_end >= window.stats_start
        THEN LET stats == GetStatsForHabit(habit, window.stats_start, window.stats_end)
                 denominator == IF window.expected_periods > 1
                                THEN window.expected_periods
                                ELSE 1
             IN  <<stats[2],
                   IF HasObjective(habit)
                   THEN Some(RoundHalfEven(stats[3] * 1000, denominator))
                   ELSE None>>
        ELSE <<None, IF HasObjective(habit) THEN Some(0) ELSE None>>

\* HabitService._calculate_habit_stats: the habit's columns, the sums of the
\* current period and of the day, the averages and the streaks
CalculateHabitStats(habit, today) ==
    LET period  == GetPeriodBoundaries(habit.frequency, today)
        averages == HabitAverages(habit, today)
        streaks == CalculateStreaks(habit, today,
                                    GetDatesWithTargetMet(habit, None),
                                    GetAllLogDates(habit.id))
    IN  [id |-> habit.id,
         value_type |-> habit.value_type,
         frequency |-> habit.frequency,
         target_value |-> habit.target_value,
         target_min |-> habit.target_min,
         target_max |-> habit.target_max,
         comparison_type |-> habit.comparison_type,
         is_required |-> habit.is_required,
         current_streak |-> Some(streaks[1]),
         longest_streak |-> Some(streaks[2]),
         average_value |-> averages[1],
         average_completion_rate |-> averages[2],
         current_period_value |-> Some(GetPeriodSum(habit.id, period[1], period[2])),
         date_value |-> GetValueForDate(habit.id, today)]

\* GET /habits/daily: HabitService.get_daily_habits
GetDailyHabits(target_date) ==
    /\ call' = Some([fn |-> "get_daily_habits", target_date |-> target_date])
    /\ ret' = Some({CalculateHabitStats(h, target_date) : h \in GetActiveHabits(target_date)})
    /\ UNCHANGED <<habits, logs, nextHabitId, nextLogId, reqs, last, issued, now>>

\* period_to_freq.get(time_period, time_period) of get_habit_history
PeriodToFreq(time_period) ==
    CASE time_period \in {"day", "daily"} -> "daily"
      [] time_period \in {"week", "weekly"} -> "weekly"
      [] time_period \in {"month", "monthly"} -> "monthly"
      [] OTHER -> time_period

\* the AggregatedPeriod entries of get_habit_history, in the order of the periods
AggregatedPeriods(habit_id, periods) ==
    [i \in 1..Len(periods) |->
        [period_start |-> periods[i][1],
         period_end |-> periods[i][2],
         total_value |-> GetPeriodSum(habit_id, periods[i][1], periods[i][2])]]

\* GET /habits/{habit_id}/history: HabitService.get_habit_history, on the day
\* `today`; start_date, end_date and time_period are optional
GetHabitHistory(habit_id, start_date, end_date, time_period, today) ==
    /\ call' = Some([fn |-> "get_habit_history", habit_id |-> habit_id,
                     start_date |-> start_date, end_date |-> end_date,
                     time_period |-> time_period, today |-> today])
    /\ LET found == HabitGet(habit_id)
       IN  IF found = None
           THEN ret' = Some([outcome |-> "NotFoundError"])
           ELSE LET end   == IF end_date = None THEN today ELSE Val(end_date)
                    tp    == IF time_period = None
                             THEN Val(found).frequency
                             ELSE Val(time_period)
                    freq  == PeriodToFreq(tp)
                IN  IF freq \notin TargetFrequency
                    THEN ret' = Some([outcome |-> "ValueError"])
                    ELSE LET start == IF start_date = None
                                      THEN GetPeriodsAgo(freq, end, 30)
                                      ELSE Val(start_date)
                         IN  ret' = Some([outcome |-> "ok",
                                          habit_id |-> habit_id,
                                          time_period |-> tp,
                                          periods |-> AggregatedPeriods(
                                              habit_id,
                                              GeneratePeriods(freq, start, end))])
    /\ UNCHANGED <<habits, logs, nextHabitId, nextLogId, reqs, last, issued, now>>

----------------------------------------------------------------------------
(* Read handlers: HabitService.get, HabitLogService.get and list_by_habit *)

\* GET /habits/{habit_id}: HabitService.get
HabitServiceGet(habit_id) ==
    /\ call' = Some([fn |-> "HabitService.get", habit_id |-> habit_id])
    /\ LET found == HabitGet(habit_id)
       IN  IF found = None
           THEN ret' = Some([outcome |-> "NotFoundError"])
           ELSE ret' = Some([outcome |-> "ok", habit |-> Val(found)])
    /\ UNCHANGED <<habits, logs, nextHabitId, nextLogId, reqs, last, issued, now>>

\* HabitLogService.get
LogServiceGet(log_id) ==
    /\ call' = Some([fn |-> "HabitLogService.get", log_id |-> log_id])
    /\ LET found == LogGet(log_id)
       IN  IF found = None
           THEN ret' = Some([outcome |-> "NotFoundError"])
           ELSE ret' = Some([outcome |-> "ok", log |-> Val(found)])
    /\ UNCHANGED <<habits, logs, nextHabitId, nextLogId, reqs, last, issued, now>>

\* order_by=desc(HabitLog.log_date) of HabitLogRepository.get_by_habit_id
RECURSIVE OrderByDateDesc(_)
OrderByDateDesc(rows) ==
    IF rows = {}
    THEN << >>
    ELSE LET r == CHOOSE x \in rows : \A y \in rows : x.log_date >= y.log_date
         IN  <<r>> \o OrderByDateDesc(rows \ {r})

\* GET /habits/{habit_id}/logs: HabitLogService.list_by_habit without a date
\* filter, on the first page
LogListByHabit(habit_id) ==
    /\ call' = Some([fn |-> "HabitLogService.list_by_habit", habit_id |-> habit_id])
    /\ IF HabitGet(habit_id) = None
       THEN ret' = Some([outcome |-> "NotFoundError"])
       ELSE LET rows == {l \in logs : l.habit_id = habit_id}
            IN  ret' = Some([outcome |-> "ok",
                             items |-> OrderByDateDesc(rows),
                             total |-> Cardinality(rows)])
    /\ UNCHANGED <<habits, logs, nextHabitId, nextLogId, reqs, last, issued, now>>

----------------------------------------------------------------------------
(* Two-step login of app/core/auth.py and app/core/security.py.  A token is its
   payload and the key that signed it; the clock counts minutes; the TOTP code
   changes with the clock. *)

\* expires_delta of the temporary token: timedelta(minutes=5)
TempTokenMinutes == 5

\* expires_delta of the final token: timedelta(days=1)
FinalTokenMinutes == 1440

\* settings.secret_key and a key that is not it
SecretKey == "secret_key"

OtherKey == "other_key"

\* the password whose hash is settings.hashed_password
Password == "password"

\* clock values after which the TOTP code repeats
TotpCodes == 3

\* pyotp.TOTP(settings.totp_secret).now()
TotpNow == now % TotpCodes

\* create_access_token: the token signed with settings.secret_key
CreateAccessToken(data, expires_delta) ==
    [sub |-> data.sub, mfa |-> data.mfa, exp |-> now + expires_delta, key |-> SecretKey]

\* verify_password
VerifyPassword(plain_password) == plain_password = Password

\* verify_totp
VerifyTotp(code) == code = TotpNow

\* jwt.decode(token, settings.secret_key, ...): the payload, None when it raises
\* JWTError (bad signature, expired)
JwtDecode(token) ==
    IF token.key # SecretKey \/ token.exp < now
    THEN None
    ELSE Some([sub |-> token.sub, mfa |-> token.mfa, exp |-> token.exp])

\* a variant of MfaStatus that takes every decoded token for a final one
MfaStatusAssumed(payload) == TRUE

\* payload.get("mfa", False), as require_auth tests it
MfaStatus(payload) == IF payload.mfa = None THEN FALSE ELSE Val(payload.mfa) = TRUE

\* the outcome of a handler of the login protocol
AuthOutcome(op, outcome, secret, token, granted) ==
    Some([op |-> op, outcome |-> outcome, secret |-> secret, token |-> token,
          granted |-> granted])

\* tokens the server keeps apart at one time
MaxIssued == 3

\* POST /login
Login(password) ==
    /\ IF ~VerifyPassword(password)
       THEN /\ last' = AuthOutcome("login", "401", password, None, None)
            /\ UNCHANGED issued
       ELSE LET temp_token == CreateAccessToken([sub |-> Some("admin"),
                                                 mfa |-> Some(FALSE)],
                                                TempTokenMinutes)
            IN  /\ Cardinality(issued \cup {temp_token}) <= MaxIssued
                /\ issued' = issued \cup {temp_token}
                /\ last' = AuthOutcome("login", "ok", password, None, Some(temp_token))
    /\ UNCHANGED <<habits, logs, nextHabitId, nextLogId, reqs, call, ret, now>>

\* POST /verify-2fa
Verify2fa(code, temp_token) ==
    /\ LET payload == JwtDecode(temp_token)
       IN  IF payload = None
           THEN /\ last' = AuthOutcome("verify_2fa", "401", code, Some(temp_token), None)
                /\ UNCHANGED issued
           ELSE IF Val(payload).mfa # Some(FALSE)
           THEN /\ last' = AuthOutcome("verify_2fa", "401", code, Some(temp_token), None)
                /\ UNCHANGED issued
           ELSE IF ~VerifyTotp(code)
           THEN /\ last' = AuthOutcome("verify_2fa", "400", code, Some(temp_token), None)
                /\ UNCHANGED issued
           ELSE LET final_token == CreateAccessToken([sub |-> Some("admin"),
                                                      mfa |-> Some(TRUE)],
                                                     FinalTokenMinutes)
                IN  /\ Cardinality(issued \cup {final_token}) <= MaxIssued
                    /\ issued' = issued \cup {final_token}
                    /\ last' = AuthOutcome("verify_2fa", "ok", code, Some(temp_token),
                                           Some(final_token))
    /\ UNCHANGED <<habits, logs, nextHabitId, nextLogId, reqs, call, ret, now>>

\* require_auth, the dependency of the routers behind the login
RequireAuth(token) ==
    /\ LET payload == JwtDecode(token)
       IN  IF payload = None
           THEN last' = AuthOutcome("require_auth", "401", None, Some(token), None)
           ELSE IF Val(payload).sub = None \/ ~MfaStatus(Val(payload))
           THEN last' = AuthOutcome("require_auth", "401", None, Some(token), None)
           ELSE last' = AuthOutcome("require_auth", "ok", None, Some(token), None)
    /\ UNCHANGED <<habits, logs, nextHabitId, nextLogId, reqs, call, ret, issued, now>>

\* last minute of the clock
MaxNow == 6

\* a minute passes
Tick ==
    /\ now < MaxNow
    /\ now' = now + 1
    /\ UNCHANGED <<habits, logs, nextHabitId, nextLogId, reqs, last, call, ret, issued>>

----------------------------------------------------------------------------
(* Bounds of the model *)

\* dates offered to one streak computation
NumSlots == 8

\* log dates of one streak computation
MaxLogDates == 3

\* 1 January of the year of the safety limit
FloorDay == Ymd2Ord(YearFloor, 1, 1)

\* distance between the dates offered, so that a few dates span several periods
Stride(frequency) ==
    CASE frequency = "daily" -> 1
      [] frequency = "weekly" -> 3
      [] OTHER -> 16

\* the dates offered for a frequency: two before 1 January 2000, the rest from it on
Slots(frequency) ==
    {FloorDay + (i - 2) * Stride(frequency) : i \in 0..(NumSlots - 1)}

----------------------------------------------------------------------------
(* The stores at rest, for the specifications of the pure functions *)

StoreIdle ==
    /\ habits = {}
    /\ logs = {}
    /\ nextHabitId = 1
    /\ nextLogId = 1
    /\ reqs = EmptyBag
    /\ last = None
    /\ issued = {}
    /\ now = 0

----------------------------------------------------------------------------
(* Specification of the streak engine: _calculate_streaks on the date sets
   the log store returns for a habit *)

InitStreak ==
    /\ StoreIdle
    /\ ret = None
    /\ \E f \in TargetFrequency, req \in BOOLEAN :
         \E t \in Slots(f), L \in SUBSET Slots(f) :
           /\ Cardinality(L) <= MaxLogDates
           /\ \E M \in SUBSET {PeriodTruncation(f, d) : d \in L} :
                call = [fn |-> "_calculate_streaks",
                        habit |-> [frequency |-> f, is_required |-> req],
                        today |-> t,
                        dates_met |-> M,
                        all_log_dates |-> L]

\* the call of _calculate_streaks in _calculate_habit_stats
ApplyStreaks ==
    /\ call.fn = "_calculate_streaks"
    /\ ret = None
    /\ ret' = Some(CalculateStreaks(call.habit, call.today, call.dates_met,
                                    call.all_log_dates))
    /\ UNCHANGED <<habits, logs, nextHabitId, nextLogId, reqs, last, call, issued, now>>

NextStreak == ApplyStreaks

SpecStreak == InitStreak /\ [][NextStreak]_vars

----------------------------------------------------------------------------
(* Specification of the target evaluator: _check_target_met on every target
   configuration and value within the bounds *)

\* largest target_value, target_min and target_max
MaxTarget == 2

\* largest value checked against a target
MaxValue == 3

OptTargets == {None} \cup {Some(x) : x \in 0..MaxTarget}

OptComparisons == {None} \cup {Some(c) : c \in ComparisonType}

InitTarget ==
    /\ StoreIdle
    /\ ret = None
    /\ \E vt \in ValueType, cmp \in OptComparisons, v \in 0..MaxValue :
         \E tv \in OptTargets, tmin \in OptTargets, tmax \in OptTargets :
            call = [fn |-> "_check_target_met",
                    habit |-> [value_type |-> vt,
                               comparison_type |-> cmp,
                               target_value |-> tv,
                               target_min |-> tmin,
                               target_max |-> tmax],
                    value |-> v]

\* a call of _check_target_met
ApplyCheckTargetMet ==
    /\ call.fn = "_check_target_met"
    /\ ret = None
    /\ ret' = Some(CheckTargetMet(call.habit, call.value))
    /\ UNCHANGED <<habits, logs, nextHabitId, nextLogId, reqs, last, call, issued, now>>

NextTarget == ApplyCheckTargetMet

SpecTarget == InitTarget /\ [][NextTarget]_vars

----------------------------------------------------------------------------
(* Specification of the target configuration of habits: HabitService.create,
   update and delete with every target configuration within the bounds, on one
   habit name *)

InitStore ==
    /\ habits = {}
    /\ logs = {}
    /\ nextHabitId = 1
    /\ nextLogId = 1
    /\ reqs = EmptyBag
    /\ last = None
    /\ issued = {}
    /\ now = 0
    /\ call = None
    /\ ret = None

HabitIds == 1..MaxHabitId

\* a HabitCreate body with the defaults of HabitBase and the given target fields
HabitData(name, value_type, comparison_type, target_value, target_min, target_max) ==
    [name |-> name,
     value_type |-> value_type,
     frequency |-> "daily",
     comparison_type |-> comparison_type,
     target_value |-> target_value,
     target_min |-> target_min,
     target_max |-> target_max,
     start_date |-> None,
     end_date |-> None,
     is_required |-> TRUE]

TargetFields ==
    {"value_type", "comparison_type", "target_value", "target_min", "target_max"}

\* target fields one PATCH request sets
MaxFieldsSet == 2

\* target values of the habits created and updated
ConfigTargets == {None, Some(0), Some(1)}

\* the fields of a record that a request sets
Restrict(rec, fields) == [f \in fields |-> rec[f]]

\* the values a request gives a field it sets; one placeholder for a field it leaves unset
Given(field, fields, values) ==
    IF field \in fields THEN values ELSE {CHOOSE v \in values : TRUE}

NextConfig ==
    \/ \E vt \in ValueType, cmp \in OptComparisons :
         \E tv \in ConfigTargets, tmin \in ConfigTargets, tmax \in ConfigTargets :
            HabitCreate(HabitData(<<"r">>, vt, cmp, tv, tmin, tmax))
    \/ \E id \in HabitIds, fields \in SUBSET TargetFields :
         /\ Cardinality(fields) <= MaxFieldsSet
         /\ \E vt \in Given("value_type", fields, ValueType),
               cmp \in Given("comparison_type", fields, OptComparisons),
               tv \in Given("target_value", fields, ConfigTargets),
               tmin \in Given("target_min", fields, ConfigTargets),
               tmax \in Given("target_max", fields, ConfigTargets) :
              HabitUpdate(id, Restrict(HabitData(<<"r">>, vt, cmp, tv, tmin, tmax),
                                       fields))
    \/ \E id \in HabitIds : HabitDelete(id)

SpecConfig == InitStore /\ [][NextConfig]_vars

----------------------------------------------------------------------------
(* Specifications of the stores: Spec runs every handler without interruption,
   SpecConcurrent runs the handlers of HabitLogService in two steps, so that the
   reads and writes of requests in flight interleave *)

\* the dates logged
LogDates == {FloorDay + 3, FloorDay + 4}

\* the values logged and added
LogValues == {1, 2}

LogIds == 1..MaxLogId

\* the habits created: a boolean habit named r and a numeric one named s, no target
StoreHabits ==
    {HabitData(<<"r">>, "boolean", None, None, None, None),
     HabitData(<<"s">>, "numeric", None, None, None, None)}

\* the bodies of PATCH /habits/{habit_id}/logs/{log_id}: a date or a value
LogUpdates ==
    {[log_date |-> Some(d), value |-> None] : d \in LogDates}
    \cup {[log_date |-> None, value |-> Some(v)] : v \in LogValues}

\* the calls of HabitLogService
LogCalls ==
    {LogArgs(op, h, d, v, 0, NoLogData) :
        op \in {"create", "upsert", "modify"}, h \in HabitIds, d \in LogDates,
        v \in LogValues}
    \cup {LogArgs("update", 0, 0, 0, id, data) : id \in LogIds, data \in LogUpdates}
    \cup {LogArgs("delete", 0, 0, 0, id, NoLogData) : id \in LogIds}

Next ==
    \/ \E data \in StoreHabits : HabitCreate(data)
    \/ \E id \in HabitIds : HabitDelete(id)
    \/ \E args \in LogCalls : LogServe(args)

Spec == InitStore /\ [][Next]_vars

\* the habit the concurrent requests log to
ConcurrentHabit == HabitData(<<"s">>, "numeric", None, None, None, None)

\* the calls of HabitLogService that run concurrently
ConcurrentCalls ==
    {LogArgs(op, h, d, 1, 0, NoLogData) :
        op \in {"create", "upsert", "modify"}, h \in HabitIds, d \in LogDates}
    \cup {LogArgs("update", 0, 0, 0, id, [log_date |-> Some(d), value |-> None]) :
            id \in LogIds, d \in LogDates}
    \cup {LogArgs("delete", 0, 0, 0, id, NoLogData) : id \in LogIds}

NextConcurrent ==
    \/ HabitCreate(ConcurrentHabit)
    \/ \E args \in ConcurrentCalls : LogBegin(args)
    \/ \E req \in BagToSet(reqs) : LogFinish(req)

SpecConcurrent == InitStore /\ [][NextConcurrent]_vars

----------------------------------------------------------------------------
(* Specification of the daily statistics: habits are created and logged, and
   GET /habits/daily reads them *)

\* the habits of the dashboard, both without a target: boolean and daily, numeric,
\* weekly and lenient
StatsHabits ==
    {HabitData(<<"r">>, "boolean", None, None, None, None),
     [HabitData(<<"s">>, "numeric", None, None, None, None)
         EXCEPT !.is_required = FALSE, !.frequency = "weekly"]}

\* the logs of the dashboard
StatsCalls ==
    {LogArgs("upsert", h, d, v, 0, NoLogData) :
        h \in HabitIds, d \in LogDates, v \in {0, 1}}

\* the day the dashboard is asked for: Wednesday 5 January 2000, the later of the
\* two days logged
StatsToday == FloorDay + 4

NextStats ==
    \/ \E data \in StatsHabits : HabitCreate(data)
    \/ \E args \in StatsCalls : LogServe(args)
    \/ GetDailyHabits(StatsToday)

SpecStats == InitStore /\ [][NextStats]_vars

----------------------------------------------------------------------------
(* Specification of the store-side target filter next to the target evaluator:
   both on every target configuration that validate_target_config accepts and
   every period sum within the bounds *)

InitFilter ==
    /\ StoreIdle
    /\ ret = None
    /\ \E vt \in ValueType, cmp \in OptComparisons, v \in 0..MaxValue :
         \E tv \in OptTargets, tmin \in OptTargets, tmax \in OptTargets :
            /\ ValidateTargetConfig(vt, cmp, tv, tmin, tmax)
            /\ call = [fn |-> "_build_comparison_expression",
                       habit |-> [value_type |-> vt,
                                  comparison_type |-> cmp,
                                  target_value |-> tv,
                                  target_min |-> tmin,
                                  target_max |-> tmax],
                       value |-> v]

\* the HAVING predicate of get_dates_with_target_met and _check_target_met, on one
\* period sum: <<the store accepts it, the evaluator accepts it>>
ApplyFilter ==
    /\ call.fn = "_build_comparison_expression"
    /\ ret = None
    /\ ret' = Some(<<BuildComparisonExpression(call.habit, call.value),
                    CheckTargetMet(call.habit, call.value)>>)
    /\ UNCHANGED <<habits, logs, nextHabitId, nextLogId, reqs, last, call, issued, now>>

NextFilter == ApplyFilter

SpecFilter == InitFilter /\ [][NextFilter]_vars

----------------------------------------------------------------------------
(* Specification of the period calculator: _get_period_boundaries,
   _count_periods_between and _generate_periods on dates around the turn of the
   year 2000 and its leap February *)

\* first dates offered: from 20 December 1999 on
CalendarDays == 45

\* largest distance from the start of a range to its end, in strides of the frequency
MaxSpan == 11

\* largest distance from the end of a range back to its start, in strides, for
\* ranges with end < start
MaxBack == 3

\* the starts of the ranges
RangeStarts == {Ymd2Ord(1999, 12, 20) + i : i \in 0..(CalendarDays - 1)}

\* the dates whose period is asked for: the range starts and the ends of February
\* in a leap year, a common year and a common century year
BoundaryDates ==
    RangeStarts
    \cup {Ymd2Ord(y, 2, 27) + i : y \in {1900, 2000, 2001}, i \in 0..3}

InitPeriods ==
    /\ StoreIdle
    /\ ret = None
    /\ \E f \in TargetFrequency :
         \/ \E d \in BoundaryDates :
               call = [fn |-> "_get_period_boundaries", frequency |-> f,
                       start_date |-> d, end_date |-> d]
         \/ \E fn \in {"_count_periods_between", "_generate_periods"} :
               \E s \in RangeStarts, n \in (0 - MaxBack)..MaxSpan :
                  call = [fn |-> fn, frequency |-> f,
                          start_date |-> s, end_date |-> s + n * Stride(f)]

\* a call of _get_period_boundaries
ApplyPeriodBoundaries ==
    /\ call.fn = "_get_period_boundaries"
    /\ ret = None
    /\ ret' = Some(GetPeriodBoundaries(call.frequency, call.start_date))
    /\ UNCHANGED <<habits, logs, nextHabitId, nextLogId, reqs, last, call, issued, now>>

\* a call of _count_periods_between
ApplyCountPeriods ==
    /\ call.fn = "_count_periods_between"
    /\ ret = None
    /\ ret' = Some(CountPeriodsBetween(call.frequency, call.start_date, call.end_date))
    /\ UNCHANGED <<habits, logs, nextHabitId, nextLogId, reqs, last, call, issued, now>>

\* a call of _generate_periods
ApplyGeneratePeriods ==
    /\ call.fn = "_generate_periods"
    /\ ret = None
    /\ ret' = Some(GeneratePeriods(call.frequency, call.start_date, call.end_date))
    /\ UNCHANGED <<habits, logs, nextHabitId, nextLogId, reqs, last, call, issued, now>>

NextPeriods ==
    \/ ApplyPeriodBoundaries
    \/ ApplyCountPeriods
    \/ ApplyGeneratePeriods

SpecPeriods == InitPeriods /\ [][NextPeriods]_vars

----------------------------------------------------------------------------
(* Specification of the history: habits are created and logged, and
   GET /habits/{habit_id}/history aggregates their logs *)

\* the habit of the history: a weekly numeric habit
HistoryHabit ==
    [HabitData(<<"w">>, "numeric", None, None, None, None) EXCEPT !.frequency = "weekly"]

\* the logs of the history: on 8 and 10 January 2000
HistoryLogDates == {FloorDay + 7, FloorDay + 9}

HistoryCalls ==
    {LogArgs("upsert", h, d, v, 0, NoLogData) :
        h \in HabitIds, d \in HistoryLogDates, v \in LogValues}

\* the ranges asked for: from 8 or 9 January 2000 or the default, to 10 January
\* 2000 or the default (the day of the request, 11 January 2000)
HistoryStarts == {None, Some(FloorDay + 7), Some(FloorDay + 8)}

HistoryEnds == {None, Some(FloorDay + 9)}

HistoryToday == FloorDay + 10

\* the time_period asked for: the habit's own, day, or one that is no period
HistoryTimePeriods == {None, Some("day"), Some("year")}

NextHistory ==
    \/ HabitCreate(HistoryHabit)
    \/ \E args \in HistoryCalls : LogServe(args)
    \/ \E id \in HabitIds, s \in HistoryStarts, e \in HistoryEnds :
          \E tp \in HistoryTimePeriods : GetHabitHistory(id, s, e, tp, HistoryToday)

SpecHistory == InitStore /\ [][NextHistory]_vars

----------------------------------------------------------------------------
(* Specification of the statistics window: stats_start, stats_end and
   expected_periods of _calculate_habit_stats for every frequency and every today
   from 20 December 1999 on *)

InitWindow ==
    /\ StoreIdle
    /\ ret = None
    /\ \E f \in TargetFrequency, t \in RangeStarts :
          call = [fn |-> "_calculate_habit_stats", frequency |-> f, today |-> t]

\* the window of _calculate_habit_stats
ApplyStatsWindow ==
    /\ call.fn = "_calculate_habit_stats"
    /\ ret = None
    /\ ret' = Some(StatsWindow(call.frequency, call.today))
    /\ UNCHANGED <<habits, logs, nextHabitId, nextLogId, reqs, last, call, issued, now>>

NextWindow == ApplyStatsWindow

SpecWindow == InitWindow /\ [][NextWindow]_vars

----------------------------------------------------------------------------
(* Specification of the completion rate: a weekly habit with a target and a
   monthly habit without one are created, the first of them is logged at both ends
   of the statistics window of 30 weeks, and GET /habits/daily reads them *)

\* the habits of the completion rate: weekly with a range as its target, monthly
\* without a target
RateHabits ==
    {[HabitData(<<"p">>, "numeric", Some("in_range"), None, Some(1), Some(2))
         EXCEPT !.frequency = "weekly"],
     [HabitData(<<"q">>, "numeric", None, None, None, None)
         EXCEPT !.frequency = "monthly"]}

\* the day the statistics are asked for: Wednesday 12 January 2000
RateToday == FloorDay + 11

\* the dates logged: the day before and the day after the date 30 weeks before
\* the day of the request, the last day of the week before it, and that day
RateLogDates ==
    {RateToday - 7 * StatsPeriods - 1, RateToday - 7 * StatsPeriods + 1,
     RateToday - 3, RateToday}

\* the logs of the completion rate, all of the habit created first
RateCalls ==
    {LogArgs("upsert", 1, d, v, 0, NoLogData) : d \in RateLogDates, v \in {0, 1}}

NextRate ==
    \/ \E data \in RateHabits : HabitCreate(data)
    \/ \E args \in RateCalls : LogServe(args)
    \/ GetDailyHabits(RateToday)

SpecRate == InitStore /\ [][NextRate]_vars

----------------------------------------------------------------------------
(* Specification of the dashboard's habits: habits with and without a start_date
   and an end_date are created and logged, and GET /habits/daily is asked for the
   days around those dates *)

\* the start_date and end_date of the habits: unset or 5 January 2000
ActiveBounds == {None, Some(FloorDay + 4)}

\* the habits of the dashboard's filter, named after their bounds
ActiveHabits ==
    {[HabitData(<<"a">>, "boolean", None, None, None, None)
         EXCEPT !.start_date = s, !.end_date = e] : s \in ActiveBounds, e \in ActiveBounds}

\* the days the dashboard is asked for: 4, 5 and 6 January 2000
ActiveDates == {FloorDay + 3, FloorDay + 4, FloorDay + 5}

ActiveCalls ==
    {LogArgs("upsert", h, FloorDay + 4, 1, 0, NoLogData) : h \in HabitIds}

NextActive ==
    \/ \E data \in ActiveHabits, n \in {<<"a">>, <<"b">>} :
          HabitCreate([data EXCEPT !.name = n])
    \/ \E args \in ActiveCalls : LogServe(args)
    \/ \E d \in ActiveDates : GetDailyHabits(d)

SpecActive == InitStore /\ [][NextActive]_vars

----------------------------------------------------------------------------
(* Specification of the current streak alone: _calculate_current_streak on the
   date sets the log store returns for a habit *)

InitCurrentStreak ==
    /\ StoreIdle
    /\ ret = None
    /\ \E f \in TargetFrequency, req \in BOOLEAN :
         \E t \in Slots(f), L \in SUBSET Slots(f) :
           /\ Cardinality(L) <= MaxLogDates
           /\ \E M \in SUBSET {PeriodTruncation(f, d) : d \in L} :
                call = [fn |-> "_calculate_current_streak",
                        habit |-> [frequency |-> f, is_required |-> req],
                        today |-> t,
                        dates_met |-> M,
                        all_log_dates |-> L]

\* a call of _calculate_current_streak
ApplyCurrentStreak ==
    /\ call.fn = "_calculate_current_streak"
    /\ ret = None
    /\ ret' = Some(CalculateCurrentStreak(call.habit, call.today, call.dates_met,
                                          call.all_log_dates))
    /\ UNCHANGED <<habits, logs, nextHabitId, nextLogId, reqs, last, call, issued, now>>

NextCurrentStreak == ApplyCurrentStreak

SpecCurrentStreak == InitCurrentStreak /\ [][NextCurrentStreak]_vars

----------------------------------------------------------------------------
(* Specification of the lookups: one habit is created, updated and deleted, logs
   are written on one date, and every handler that takes a habit id or a log id
   is called with stored and with missing ids *)

\* the habit looked up
LookupHabit == HabitData(<<"s">>, "numeric", None, None, None, None)

\* the bodies of PATCH /habits/{habit_id}
LookupUpdates == {[is_required |-> FALSE]}

\* the date logged and asked for
LookupDate == FloorDay + 4

\* the calls of HabitLogService
LookupCalls ==
    {LogArgs(op, h, LookupDate, 1, 0, NoLogData) :
        op \in {"create", "upsert", "modify"}, h \in HabitIds}
    \cup {LogArgs("update", 0, 0, 0, id, [log_date |-> None, value |-> Some(2)]) :
            id \in LogIds}
    \cup {LogArgs("delete", 0, 0, 0, id, NoLogData) : id \in LogIds}

NextLookup ==
    \/ HabitCreate(LookupHabit)
    \/ \E id \in HabitIds, data \in LookupUpdates : HabitUpdate(id, data)
    \/ \E id \in HabitIds : HabitDelete(id)
    \/ \E args \in LookupCalls : LogServe(args)
    \/ \E id \in HabitIds : HabitServiceGet(id)
    \/ \E id \in HabitIds : LogListByHabit(id)
    \/ \E id \in HabitIds :
          GetHabitHistory(id, Some(LookupDate), Some(LookupDate), None, LookupDate)
    \/ \E id \in LogIds : LogServiceGet(id)

SpecLookup == InitStore /\ [][NextLookup]_vars

----------------------------------------------------------------------------
(* Specification of the active window: a habit is created with or without a
   start_date, its start_date and end_date are changed, and logs are written and
   moved on a date before and a date after the start *)

\* the dates logged: 4 and 5 January 2000
DatedDates == {FloorDay + 3, FloorDay + 4}

\* the habits created: without bounds, or starting on 5 January 2000
DatedHabits ==
    {[HabitData(<<"s">>, "numeric", None, None, None, None) EXCEPT !.start_date = s] :
        s \in {None, Some(FloorDay + 4)}}

\* the bodies of PATCH /habits/{habit_id}: a start_date or an end_date
DatedUpdates ==
    {[start_date |-> Some(FloorDay + 4)], [end_date |-> Some(FloorDay + 3)]}

\* the calls of HabitLogService
DatedCalls ==
    {LogArgs(op, h, d, 1, 0, NoLogData) :
        op \in {"create", "upsert", "modify"}, h \in HabitIds, d \in DatedDates}
    \cup {LogArgs("update", 0, 0, 0, id, [log_date |-> Some(d), value |-> None]) :
            id \in LogIds, d \in DatedDates}

NextDated ==
    \/ \E data \in DatedHabits : HabitCreate(data)
    \/ \E id \in HabitIds, data \in DatedUpdates : HabitUpdate(id, data)
    \/ \E args \in DatedCalls : LogServe(args)

SpecDated == InitStore /\ [][NextDated]_vars

----------------------------------------------------------------------------
(* The habit store under requests that name habits: creates, renames and deletes
   over names with and without characters html.escape rewrites. *)

\* names the requests carry
NamedNames == {<<"r">>, <<"s">>, <<"&">>, <<"<">>}

\* the habit a request creates under a name
NamedHabit(name) == HabitData(name, "boolean", None, None, None, None)

NextNamed ==
    \/ \E name \in NamedNames : HabitCreate(NamedHabit(name))
    \/ \E id \in HabitIds, name \in NamedNames : HabitUpdate(id, [name |-> name])
    \/ \E id \in HabitIds : HabitDelete(id)

SpecNamed == InitStore /\ [][NextNamed]_vars

----------------------------------------------------------------------------
(* The store under log writes and habit updates that change value_type. *)

\* the bodies of PATCH /habits/{habit_id} that set value_type
TypedUpdates == {[value_type |-> vt] : vt \in ValueType}

NextTyped ==
    \/ \E data \in StoreHabits : HabitCreate(data)
    \/ \E id \in HabitIds, data \in TypedUpdates : HabitUpdate(id, data)
    \/ \E args \in LogCalls : LogServe(args)

SpecTyped == InitStore /\ [][NextTyped]_vars

----------------------------------------------------------------------------
(* Specification of the backward walk of _calculate_current_streak, one pass of
   its while loop per step: ret holds the loop's check_date and streak and
   whether the function has returned *)

\* days from 1 January 2000 to the later of the two days the walk starts from
FarDays == 1100

\* the days of today offered to the walk
WalkTodays == {FloorDay + 1, FloorDay + FarDays}

\* the state of the loop
WalkFrame(check_date, streak, returned) ==
    Some([check_date |-> check_date, streak |-> streak, returned |-> returned])

\* "streak = 0; check_date = today"
InitWalk ==
    /\ StoreIdle
    /\ \E f \in TargetFrequency, req \in BOOLEAN, t \in WalkTodays :
         \E M \in {{}, {FloorDay}, {t}, FloorDay..t}, X \in {{}, {t - 1}} :
           /\ call = [fn |-> "_calculate_current_streak",
                      habit |-> [frequency |-> f, is_required |-> req],
                      today |-> t,
                      dates_met |-> M,
                      all_log_dates |-> M \cup X]
           /\ ret = WalkFrame(t, 0, FALSE)

\* one pass of the while loop of _calculate_current_streak
WalkPass ==
    /\ call.fn = "_calculate_current_streak"
    /\ ~Val(ret).returned
    /\ LET min_log_date == IF call.all_log_dates # {}
                           THEN SetMin(call.all_log_dates) ELSE call.today
           streak       == Val(ret).streak
           pb           == GetPeriodBoundaries(call.habit.frequency, Val(ret).check_date)
           next_date    == PreviousCheckDate(pb[1])
       IN  IF CurrentStreakBreaks(call.habit, call.dates_met, call.all_log_dates,
                                  min_log_date, pb[1], pb[2])
           THEN ret' = WalkFrame(Val(ret).check_date, streak, TRUE)
           ELSE ret' = WalkFrame(next_date, streak + 1,
                                 SafetyLimitHit(streak + 1, next_date))
    /\ UNCHANGED <<habits, logs, nextHabitId, nextLogId, reqs, last, call, issued, now>>

NextWalk == WalkPass

SpecWalk == InitWalk /\ [][NextWalk]_vars

\* the loop runs on its own: a pass that can be taken is taken
SpecWalkFair == SpecWalk /\ WF_vars(WalkPass)

----------------------------------------------------------------------------
(* Specification of the login protocol: clients log in, verify and call the
   protected routes with the tokens the server issued and with tokens signed with
   another key, while the clock runs *)

\* passwords the clients send
AuthPasswords == {Password, "guess"}

\* tokens signed with another key, with every payload
ForgedTokens ==
    {[sub |-> Some("admin"), mfa |-> m, exp |-> FinalTokenMinutes, key |-> OtherKey] :
        m \in {None, Some(FALSE), Some(TRUE)}}

\* tokens the clients send
AuthTokens == issued \cup ForgedTokens

NextAuth ==
    \/ \E password \in AuthPasswords : Login(password)
    \/ \E code \in 0..(TotpCodes - 1), temp_token \in AuthTokens : Verify2fa(code, temp_token)
    \/ \E token \in AuthTokens : RequireAuth(token)
    \/ Tick

SpecAuth == InitStore /\ [][NextAuth]_vars

----------------------------------------------------------------------------
(* Reference notions for the claims about streaks, stated on period numbers
   and not through the boundaries the engine computes *)

\* number of the period of a frequency that contains a date
PeriodIndex(frequency, d) ==
    CASE frequency = "daily" -> d
      [] frequency = "weekly" -> (d - 1) \div 7
      [] OTHER -> Year(d) * 12 + Month(d)

\* the period k periods before the one containing today contains a date of D
HasDateBack(frequency, today, D, k) ==
    \E d \in D : PeriodIndex(frequency, d) = PeriodIndex(frequency, today) - k

\* the backward walk looks at the period k periods back: today's always, an earlier
\* one while no more than StreakLimit are counted and it is not earlier than the
\* period that contains 1 January 2000
WalkReaches(frequency, today, k) ==
    \/ k = 0
    \/ /\ k <= StreakLimit
       /\ PeriodIndex(frequency, today) - k >= PeriodIndex(frequency, FloorDay)

\* number of consecutive periods, backwards from today's, that each contain a met date
ConsecutiveMetBack(frequency, today, M) ==
    CHOOSE n \in 0..Cardinality(M) :
        /\ \A k \in 0..(n - 1) : HasDateBack(frequency, today, M, k)
        /\ ~HasDateBack(frequency, today, M, n)

\* the same, counting only the periods the walk reaches
ConsecutiveMetReached(frequency, today, M) ==
    CHOOSE n \in 0..Cardinality(M) :
        /\ \A k \in 0..(n - 1) :
              HasDateBack(frequency, today, M, k) /\ WalkReaches(frequency, today, k)
        /\ ~(HasDateBack(frequency, today, M, n) /\ WalkReaches(frequency, today, n))

StreaksReturned == call.fn = "_calculate_streaks" /\ ret # None

----------------------------------------------------------------------------
(* Claims *)

\* C1 (as stated): for a strict habit with at least one met date, currentStreak is
\* the number of consecutive periods, backwards from the period containing today,
\* that each contain a date of datesMet.
C1_StrictStreakCountsMetPeriods ==
    (StreaksReturned /\ call.habit.is_required /\ call.dates_met # {})
        => Val(ret)[1] = ConsecutiveMetBack(call.habit.frequency, call.today,
                                            call.dates_met)

\* C1 (amended): the same count, limited to the periods the walk reaches: at most
\* StreakLimit + 1 periods, none earlier than the period containing 1 January 2000
\* except today's own.
C1_StrictStreakCountsReachedMetPeriods ==
    (StreaksReturned /\ call.habit.is_required /\ call.dates_met # {})
        => Val(ret)[1] = ConsecutiveMetReached(call.habit.frequency, call.today,
                                               call.dates_met)

\* C1 witness: a strict daily habit met on T, T-1 and T-3 and not on T-2 has
\* current streak 2 and longest streak 2.
C1_Witness ==
    /\ StreaksReturned
    /\ call.habit.is_required
    /\ call.habit.frequency = "daily"
    /\ call.today - 3 >= FloorDay
    /\ call.dates_met = {call.today, call.today - 1, call.today - 3}
    /\ Val(ret) = <<2, 2>>

\* the period k periods back counts for a lenient habit: it contains a met date, or
\* nothing at all was logged in it and it does not end before the earliest log
CountsLenientBack(frequency, today, M, L, k) ==
    \/ HasDateBack(frequency, today, M, k)
    \/ /\ ~HasDateBack(frequency, today, L, k)
       /\ PeriodIndex(frequency, today) - k >= PeriodIndex(frequency, SetMin(L))

\* periods between the one of the earliest log and today's, plus one
LenientSpan(frequency, today, L) ==
    LET n == PeriodIndex(frequency, today) - PeriodIndex(frequency, SetMin(L)) + 1
    IN  IF n > 0 THEN n ELSE 0

\* C2 (as stated): for a lenient habit the current streak is the number of
\* consecutive periods, backwards from today's, that are met or in which nothing
\* was logged and that do not end before the earliest log; the walk stops at the
\* first unlogged period that ends before the earliest log.
C2_LenientStreakCountsMissingPeriods ==
    (StreaksReturned /\ ~call.habit.is_required /\ call.dates_met # {})
        => LET f == call.habit.frequency
               t == call.today
               M == call.dates_met
               L == call.all_log_dates
           IN  \E n \in 0..LenientSpan(f, t, L) :
                  /\ Val(ret)[1] = n
                  /\ \A k \in 0..(n - 1) : CountsLenientBack(f, t, M, L, k)
                  /\ ~CountsLenientBack(f, t, M, L, n)

\* C2 (amended): the same count, limited to the periods the walk reaches.
C2_LenientStreakCountsReachedMissingPeriods ==
    (StreaksReturned /\ ~call.habit.is_required /\ call.dates_met # {})
        => LET f == call.habit.frequency
               t == call.today
               M == call.dates_met
               L == call.all_log_dates
           IN  \E n \in 0..LenientSpan(f, t, L) :
                  /\ Val(ret)[1] = n
                  /\ \A k \in 0..(n - 1) :
                        CountsLenientBack(f, t, M, L, k) /\ WalkReaches(f, t, k)
                  /\ ~(CountsLenientBack(f, t, M, L, n) /\ WalkReaches(f, t, n))

\* C2 witness: a lenient daily habit met on T and T-2, nothing logged on T-1, has
\* current streak 3 and longest streak 3.
C2_Witness ==
    /\ StreaksReturned
    /\ ~call.habit.is_required
    /\ call.habit.frequency = "daily"
    /\ call.dates_met = {call.today, call.today - 2}
    /\ call.today - 3 >= FloorDay
    /\ call.all_log_dates = {call.today, call.today - 2}
    /\ Val(ret) = <<3, 3>>

\* the period with number j contains a log and no met date
LoggedNotMet(frequency, M, L, j) ==
    /\ \E d \in L : PeriodIndex(frequency, d) = j
    /\ ~\E d \in M : PeriodIndex(frequency, d) = j

\* C3: for every habit, strict or lenient, a period that contains a log and is not
\* met ends the current streak (no period at or before it is counted) and no run
\* counted by the longest streak contains it: the longest streak is the length of
\* some run of periods, between the first and the last met one, free of such periods.
C3_LoggedUnmetPeriodBreaksStreak ==
    (StreaksReturned /\ call.dates_met # {})
        => LET f  == call.habit.frequency
               t  == call.today
               M  == call.dates_met
               L  == call.all_log_dates
               lo == PeriodIndex(f, SetMin(M))
               hi == PeriodIndex(f, SetMax(M))
           IN  /\ \A d \in L :
                     LET k == PeriodIndex(f, t) - PeriodIndex(f, d)
                     IN  (k >= 0 /\ LoggedNotMet(f, M, L, PeriodIndex(f, d)))
                            => Val(ret)[1] <= k
               /\ \E a \in lo..hi, b \in lo..hi :
                     /\ b - a + 1 = Val(ret)[2]
                     /\ \A j \in a..b : ~LoggedNotMet(f, M, L, j)

\* C3 witness: a lenient daily habit met on T-2 and T, logged and not met on T-1,
\* has current streak 1 and longest streak 1.
C3_Witness ==
    /\ StreaksReturned
    /\ ~call.habit.is_required
    /\ call.habit.frequency = "daily"
    /\ call.dates_met = {call.today, call.today - 2}
    /\ call.today - 3 >= FloorDay
    /\ call.all_log_dates = {call.today, call.today - 1, call.today - 2}
    /\ Val(ret) = <<1, 1>>

TargetChecked == call.fn = "_check_target_met" /\ ret # None

\* C9 (as stated): for a numeric in_range habit with both bounds set (target_min <
\* target_max, as validation demands), the target is met exactly when
\* target_min <= value <= target_max, whatever target_value is, unset included.
C9_InRangeMetIffWithinBounds ==
    (/\ TargetChecked
     /\ call.habit.value_type = "numeric"
     /\ call.habit.comparison_type = Some("in_range")
     /\ call.habit.target_min # None
     /\ call.habit.target_max # None
     /\ Val(call.habit.target_min) < Val(call.habit.target_max))
        => (Val(ret) <=> (/\ Val(call.habit.target_min) <= call.value
                          /\ call.value <= Val(call.habit.target_max)))

\* C10: a boolean habit is met exactly when value = 1; a numeric habit with one of
\* the five direct comparisons and a target_value is met exactly when the value
\* compares to target_value that way; a numeric habit with no comparison_type is
\* met for every value.
C10_DirectComparisons ==
    TargetChecked =>
        LET h == call.habit
            v == call.value
        IN  /\ h.value_type = "boolean" => (Val(ret) <=> v = 1)
            /\ (h.value_type = "numeric" /\ h.comparison_type = None) => Val(ret)
            /\ (h.value_type = "numeric" /\ h.target_value # None) =>
                  LET tv == Val(h.target_value)
                  IN  /\ h.comparison_type = Some("equals") => (Val(ret) <=> v = tv)
                      /\ h.comparison_type = Some("greater_than") => (Val(ret) <=> v > tv)
                      /\ h.comparison_type = Some("less_than") => (Val(ret) <=> v < tv)
                      /\ h.comparison_type = Some("greater_equal_than")
                            => (Val(ret) <=> v >= tv)
                      /\ h.comparison_type = Some("less_equal_than")
                            => (Val(ret) <=> v <= tv)

\* C10 witness: a numeric greater_equal_than habit is checked with a value equal to
\* its target and is met.
C10_Witness ==
    /\ TargetChecked
    /\ call.habit.value_type = "numeric"
    /\ call.habit.comparison_type = Some("greater_equal_than")
    /\ call.habit.target_value = Some(call.value)
    /\ Val(ret)

\* the target configuration of a stored habit is consistent
ConsistentTargetConfig(h) ==
    /\ h.value_type = "boolean" =>
          /\ h.target_value = None
          /\ h.target_min = None
          /\ h.target_max = None
          /\ h.comparison_type \in {None, Some("equals")}
    /\ (/\ h.value_type = "numeric"
        /\ h.comparison_type # None
        /\ h.comparison_type # Some("in_range")) => h.target_value # None
    /\ (h.value_type = "numeric" /\ h.comparison_type = Some("in_range")) =>
          /\ h.target_min # None
          /\ h.target_max # None
          /\ Val(h.target_min) < Val(h.target_max)

\* C7 (as stated): every habit persisted by HabitService.create or update has a
\* consistent target configuration: a boolean habit has no target_value, target_min
\* or target_max at all (0 included) and no comparison other than equals; a numeric
\* habit with a direct comparison has a target_value; a numeric in_range habit has
\* both bounds with target_min < target_max.
C7_StoredTargetConfigConsistent == \A h \in habits : ConsistentTargetConfig(h)

----------------------------------------------------------------------------
(* Claims about the log store *)

\* the last request was answered by HabitLogService `op` with `outcome`
LogAnswered(op, outcome) ==
    /\ last # None
    /\ Val(last).op = op
    /\ Val(last).outcome = outcome

\* the logs of a habit on a date
LogsOf(rows, habit_id, log_date) ==
    {l \in rows : l.habit_id = habit_id /\ l.log_date = log_date}

\* C5: a successful upsert(habit, date, value) leaves exactly one log of
\* (habit, date), holding value; that log is the row that existed before, with its
\* id, or else one new row; the logs of other dates and habits are unchanged; and
\* an upsert of the value already stored changes nothing.
C5_UpsertSetsTheOneLog ==
    [][ (last' # None /\ Val(last').op = "upsert" /\ Val(last').outcome = "ok") =>
          LET u      == Val(last')
              before == LogsOf(logs, u.habit_id, u.log_date)
              after  == LogsOf(logs', u.habit_id, u.log_date)
          IN  /\ Cardinality(after) = 1
              /\ \A l \in after : l.value = u.value /\ l.id = u.log_id
              /\ before # {} => {l.id : l \in after} = {l.id : l \in before}
              /\ before = {} => \A l \in after : \A k \in logs : k.id # l.id
              /\ logs' \ after = logs \ before
              /\ (\E l \in before : l.value = u.value) => logs' = logs
      ]_vars

\* an upsert replaced the value of the log of its date, next to a log of another
C5_Witness ==
    /\ LogAnswered("upsert", "ok")
    /\ Val(last).existing_id # 0
    /\ Val(last).existing_id = Val(last).log_id
    /\ \E l \in logs : l.id = Val(last).log_id /\ l.value = Val(last).value
    /\ \E l \in logs : l.id # Val(last).log_id

\* C6: in every reachable state there is at most one log row per
\* (habit_id, log_date), whatever the interleaving of the reads and writes of
\* create, upsert, modify, update and delete.
C6_OneLogPerHabitAndDate ==
    \A l1 \in logs : \A l2 \in logs :
        (l1.habit_id = l2.habit_id /\ l1.log_date = l2.log_date) => l1 = l2

\* two upserts of one (habit, date) both read no log; the second to write was
\* refused and the log of the first is stored
C6_Witness ==
    /\ LogAnswered("upsert", "IntegrityError")
    /\ Val(last).existing_id = 0
    /\ LogsOf(logs, Val(last).habit_id, Val(last).log_date) # {}

\* C8: HabitService.delete on a stored habit, with or without logs, succeeds and
\* removes the habit and every log of it; no stored log names a habit that is
\* not stored.
C8_DeleteRemovesHabitAndLogs ==
    /\ \A l \in logs : HabitGet(l.habit_id) # None
    /\ (/\ last # None
        /\ Val(last).op = "HabitService.delete"
        /\ Val(last).outcome # "NotFoundError")
       => /\ Val(last).outcome = "ok"
          /\ HabitGet(Val(last).habit_id) = None
          /\ \A l \in logs : l.habit_id # Val(last).habit_id

----------------------------------------------------------------------------
(* Claims about the daily statistics *)

\* the entries GET /habits/daily returned
DailyStats == IF call # None /\ Val(call).fn = "get_daily_habits" THEN Val(ret) ELSE {}

\* C4: for a habit with neither comparison_type nor target_value the
\* currentStreak and longestStreak of its statistics are null, never 0 or any
\* other number.
C4_NoTargetStreaksAreNull ==
    \A stats \in DailyStats :
        (stats.comparison_type = None /\ stats.target_value = None)
        => stats.current_streak = None /\ stats.longest_streak = None

----------------------------------------------------------------------------
(* Claims about the store-side filter and the period calculator *)

FilterApplied == call.fn = "_build_comparison_expression" /\ ret # None

\* C11: for every target configuration that validation accepts and every period
\* sum, the store-side filter accepts the sum exactly when _check_target_met is
\* true of it.
C11_StoreFilterEquivalentToEvaluator ==
    FilterApplied => (Val(ret)[1] <=> Val(ret)[2])

\* the list of periods tiles [start, end]: it starts at start, ends at end, and each
\* period starts the day after the one before it ends
TilesRange(periods, start, end) ==
    /\ Len(periods) > 0
    /\ periods[1][1] = start
    /\ periods[Len(periods)][2] = end
    /\ \A i \in 1..Len(periods) : periods[i][1] <= periods[i][2] /\ periods[i][2] <= end
    /\ \A i \in 1..(Len(periods) - 1) : periods[i + 1][1] = periods[i][2] + 1

PeriodsGenerated == call.fn = "_generate_periods" /\ ret # None

\* C12: for every frequency and start <= end the periods of _generate_periods tile
\* [start, end] exactly (first starts at start, last ends at end, each next one
\* starts the day after the previous ends, none ends after end) and their number
\* is _count_periods_between(frequency, start, end).
C12_GeneratedPeriodsTileRange ==
    (PeriodsGenerated /\ call.start_date <= call.end_date)
        => /\ TilesRange(Val(ret), call.start_date, call.end_date)
           /\ Len(Val(ret)) = CountPeriodsBetween(call.frequency, call.start_date,
                                                  call.end_date)

----------------------------------------------------------------------------
(* Claims about the history *)

\* C13: get_habit_history returns one entry for every period of the resolved
\* frequency in the requested range, in strictly ascending order; each entry's
\* total_value is the sum of the habit's log values dated in
\* [period_start, period_end] of that entry, 0 for a period without logs.
C13_HistoryHasEveryPeriodWithItsSum ==
    [][ (/\ <<call, ret>>' # <<call, ret>>
         /\ Val(call').fn = "get_habit_history"
         /\ Val(ret').outcome = "ok")
        => LET c     == Val(call')
               p     == Val(ret').periods
               freq  == PeriodToFreq(Val(ret').time_period)
               end   == IF c.end_date = None THEN c.today ELSE Val(c.end_date)
               start == IF c.start_date = None
                        THEN GetPeriodsAgo(freq, end, 30)
                        ELSE Val(c.start_date)
           IN  /\ \A d \in start..end :
                     \E i \in 1..Len(p) : p[i].period_start <= d /\ d <= p[i].period_end
               /\ Len(p) = Cardinality({PeriodIndex(freq, d) : d \in start..end})
               /\ \A i \in 1..(Len(p) - 1) : p[i].period_end < p[i + 1].period_start
               /\ \A i \in 1..Len(p) :
                     /\ p[i].period_start <= p[i].period_end
                     /\ p[i].total_value =
                           SumValues({l \in logs : /\ l.habit_id = c.habit_id
                                                   /\ p[i].period_start <= l.log_date
                                                   /\ l.log_date <= p[i].period_end})
      ]_vars

\* C13 witness: the history by day of three days, the first and the last logged,
\* has three entries, the middle one with total_value 0
C13_Witness ==
    /\ call # None
    /\ Val(call).fn = "get_habit_history"
    /\ Val(call).time_period = Some("day")
    /\ Val(call).start_date = Some(FloorDay + 7)
    /\ Val(call).end_date = Some(FloorDay + 9)
    /\ Val(ret).outcome = "ok"
    /\ Len(Val(ret).periods) = 3
    /\ Val(ret).periods[1].total_value = 2
    /\ Val(ret).periods[2].total_value = 0
    /\ Val(ret).periods[3].total_value = 1
    /\ \E l \in logs : l.log_date = FloorDay + 7 /\ l.value = 2
    /\ \E l \in logs : l.log_date = FloorDay + 9 /\ l.value = 1

BoundariesReturned == call.fn = "_get_period_boundaries" /\ ret # None

\* C14: for every frequency f and date d, _get_period_boundaries(f, d) is the
\* period of f that contains d: (d, d) for daily; the Monday on or before d and
\* the Sunday six days later for weekly; the first and the last day of d's calendar
\* month for monthly, December and a leap February included.
C14_PeriodBoundariesContainDate ==
    BoundariesReturned =>
        LET f     == call.frequency
            d     == call.start_date
            start == Val(ret)[1]
            end   == Val(ret)[2]
        IN  /\ start <= d /\ d <= end
            /\ f = "daily" => (start = d /\ end = d)
            /\ f = "weekly" => (Weekday(start) = 0 /\ end = start + 6)
            /\ f = "monthly" =>
                  /\ Day(start) = 1
                  /\ Month(start) = Month(d) /\ Year(start) = Year(d)
                  /\ Month(end) = Month(d) /\ Year(end) = Year(d)
                  /\ Month(end + 1) # Month(d)

\* C14 witness: the month of 28 February 2000 runs from 1 to 29 February 2000
C14_Witness ==
    /\ BoundariesReturned
    /\ call.frequency = "monthly"
    /\ call.start_date = Ymd2Ord(2000, 2, 28)
    /\ Val(ret) = <<Ymd2Ord(2000, 2, 1), Ymd2Ord(2000, 2, 29)>>

PeriodsCounted == call.fn = "_count_periods_between" /\ ret # None

ConsecutiveNewPeriod(frequency, dates_met, d) ==
    /\ \A m \in dates_met : PeriodIndex(frequency, m) # PeriodIndex(frequency, d)
    /\ \E m \in dates_met :
          \/ PeriodIndex(frequency, m) = PeriodIndex(frequency, d) + 1
          \/ PeriodIndex(frequency, m) = PeriodIndex(frequency, d) - 1

CurrentStreakReturned == call.fn = "_calculate_current_streak" /\ ret # None

\* currentStreak after the date d is added to datesMet and to allLogDates
CurrentStreakWith(d) ==
    CalculateCurrentStreak(call.habit, call.today, call.dates_met \cup {d},
                           call.all_log_dates \cup {d})

\* C16: for every habit, strict or lenient, every today, datesMet and allLogDates,
\* adding the date of one more met period that is consecutive with the met periods
\* to datesMet and to allLogDates never makes currentStreak smaller than it was.
C16_AddingMetPeriodNeverLowersStreak ==
    CurrentStreakReturned =>
        \A d \in Slots(call.habit.frequency) :
            ConsecutiveNewPeriod(call.habit.frequency, call.dates_met, d)
                => CurrentStreakWith(d) >= Val(ret)

\* C16 witness: a streak of one period that the added period before it extends to two
C16_Witness ==
    /\ CurrentStreakReturned
    /\ Val(ret) = 1
    /\ \E d \in Slots(call.habit.frequency) :
          /\ ConsecutiveNewPeriod(call.habit.frequency, call.dates_met, d)
          /\ d < call.today
          /\ CurrentStreakWith(d) = 2

----------------------------------------------------------------------------
(* Claims about the statistics window and the completion rate *)

WindowReturned == call.fn = "_calculate_habit_stats" /\ ret # None

\* C18: for every frequency and every today the statistics window
\* [stats_start, stats_end] is exactly the 30 whole periods before the period that
\* contains today: stats_end is the day before the current period starts,
\* stats_start is the first day of the period 30 periods back, the window is not
\* empty and expected_periods is 30.
C18_StatsWindowIsThirtyWholePeriods ==
    WindowReturned =>
        LET f == call.frequency
            w == Val(ret)
        IN  /\ PeriodIndex(f, w.stats_end) = PeriodIndex(f, call.today) - 1
            /\ PeriodIndex(f, w.stats_end + 1) = PeriodIndex(f, call.today)
            /\ PeriodIndex(f, w.stats_start) = PeriodIndex(f, call.today) - StatsPeriods
            /\ PeriodIndex(f, w.stats_start - 1) # PeriodIndex(f, w.stats_start)
            /\ w.stats_start <= w.stats_end
            /\ w.expected_periods = StatsPeriods

\* the logs of a habit that the statistics window starting at stats_start sees
WindowLogs(habit_id, stats_start) ==
    {l \in logs : l.habit_id = habit_id /\ l.log_date >= stats_start}

\* the periods, by their index, that begin on or before stats_end and whose logs
\* seen by the window add up to a sum the store's filter accepts
PeriodsMetInWindow(stats, window) ==
    LET rows == WindowLogs(stats.id, window.stats_start)
        f    == stats.frequency
    IN  {k \in {PeriodIndex(f, l.log_date) : l \in rows} :
            /\ k <= PeriodIndex(f, window.stats_end)
            /\ BuildComparisonExpression(
                   stats, SumValues({l \in rows : PeriodIndex(f, l.log_date) = k}))}

----------------------------------------------------------------------------
(* Claims about the habits of the dashboard *)

\* C20: get_daily_habits(date) returns one entry for exactly the stored habits
\* whose start_date is unset or on or before date and whose end_date is unset or
\* on or after date; it is empty when no habit is stored.
C20_DailyHabitsAreTheActiveHabits ==
    [][ (/\ <<call, ret>>' # <<call, ret>>
         /\ Val(call').fn = "get_daily_habits")
        => LET date   == Val(call').target_date
               active == {h \in habits :
                            /\ h.start_date = None \/ Val(h.start_date) <= date
                            /\ h.end_date = None \/ Val(h.end_date) >= date}
           IN  /\ {stats.id : stats \in Val(ret')} = {h.id : h \in active}
               /\ Cardinality(Val(ret')) = Cardinality(active)
               /\ habits = {} => Val(ret') = {}
      ]_vars

\* C20 witness: of two stored habits, one that ended the day before the date asked
\* for and one without bounds, only the second is returned
C20_Witness ==
    /\ call # None
    /\ Val(call).fn = "get_daily_habits"
    /\ Val(call).target_date = FloorDay + 5
    /\ \E h \in habits, g \in habits :
          /\ h.end_date = Some(FloorDay + 4)
          /\ g.start_date = None /\ g.end_date = None
          /\ {stats.id : stats \in Val(ret)} = {g.id}

----------------------------------------------------------------------------
(* Claims about the handlers of the stores *)

HabitStored(habit_id) == \E h \in habits : h.id = habit_id

LogStored(log_id) == \E l \in logs : l.id = log_id

\* the handler reported NotFoundError and wrote nothing
RefusedNotFound(answer) ==
    /\ Val(answer).outcome = "NotFoundError"
    /\ UNCHANGED <<habits, logs>>

\* C21: every handler called with a habit id that is not stored (HabitService.get,
\* update, delete, get_habit_history; HabitLogService.list_by_habit, create, upsert,
\* modify) and every handler called with a log id that is not stored
\* (HabitLogService.get, update, delete) fails with NotFoundError and leaves the
\* habits and the logs unchanged; this covers the ids of deleted habits and logs.
C21_MissingIdIsNotFound ==
    [][ /\ \A id \in HabitIds :
             ~HabitStored(id) =>
                /\ HabitServiceGet(id) => RefusedNotFound(ret')
                /\ (\E data \in LookupUpdates : HabitUpdate(id, data))
                      => RefusedNotFound(last')
                /\ HabitDelete(id) => RefusedNotFound(last')
                /\ GetHabitHistory(id, Some(LookupDate), Some(LookupDate), None,
                                   LookupDate) => RefusedNotFound(ret')
                /\ LogListByHabit(id) => RefusedNotFound(ret')
                /\ \A args \in LookupCalls :
                      (/\ args.op \in {"create", "upsert", "modify"}
                       /\ args.habit_id = id
                       /\ LogServe(args)) => RefusedNotFound(last')
        /\ \A id \in LogIds :
             ~LogStored(id) =>
                /\ LogServiceGet(id) => RefusedNotFound(ret')
                /\ \A args \in LookupCalls :
                      (/\ args.op \in {"update", "delete"}
                       /\ args.log_id = id
                       /\ LogServe(args)) => RefusedNotFound(last')
      ]_vars

\* C21 witness: habit 1 was created and deleted, a log was then asked for it, and
\* HabitService.get of habit 1 answered NotFoundError
C21_Witness ==
    /\ nextHabitId = 2
    /\ habits = {}
    /\ last # None
    /\ Val(last).op = "create" /\ Val(last).habit_id = 1
    /\ Val(last).outcome = "NotFoundError"
    /\ logs = {}
    /\ call # None
    /\ Val(call).fn = "HabitService.get" /\ Val(call).habit_id = 1
    /\ Val(ret).outcome = "NotFoundError"

\* a log is stored for the habit and the date of the call
LogExistsFor(args) ==
    \E l \in logs : l.habit_id = args.habit_id /\ l.log_date = args.log_date

\* C22: HabitLogService.create for a (habit, date) that already has a log fails
\* with ConflictError and leaves every log unchanged; it succeeds only when no log
\* exists for that (habit, date).
C22_CreateDuplicateIsConflict ==
    [][ \A args \in DatedCalls :
          (args.op = "create" /\ LogServe(args)) =>
             /\ LogExistsFor(args) =>
                   (Val(last').outcome = "ConflictError" /\ UNCHANGED logs)
             /\ Val(last').outcome = "ok" => ~LogExistsFor(args)
      ]_vars

\* the log's date is inside the active window of its habit
InsideWindow(l) ==
    \A h \in habits :
        h.id = l.habit_id =>
            /\ h.start_date = None \/ l.log_date >= Val(h.start_date)
            /\ h.end_date = None \/ l.log_date <= Val(h.end_date)

\* C29: in every reachable state the log_date of every stored log lies inside the
\* active window of its habit: not before start_date when set, not after end_date
\* when set.
C29_LogDatesInsideActiveWindow == \A l \in logs : InsideWindow(l)

\* C23: no two stored habits have the same name.
C23_HabitNamesAreUnique ==
    \A h1 \in habits, h2 \in habits : h1.name = h2.name => h1.id = h2.id

\* the value of the log is one its habit's value_type admits
ValueFitsType(l) ==
    \A h \in habits :
       h.id = l.habit_id =>
          IF h.value_type = "boolean" THEN l.value \in {0, 1} ELSE l.value >= 0

\* C24: every stored log of a boolean habit has value 0 or 1 and every stored log
\* of a numeric habit has a non-negative value.
C24_LogValuesFitValueType == \A l \in logs : ValueFitsType(l)

\* C25: the backward walk of currentStreak stops after at most 1000 passes: the
\* returned streak is never greater than 1000.
C25_StreakWithinSafetyLimit ==
    Val(ret).returned => Val(ret).streak <= StreakLimit

\* the backward walk returns on every input offered
CurrentStreakReturns == <>(Val(ret).returned)

\* the period with index i contains a date of D
HasDateAt(frequency, D, i) == \E d \in D : PeriodIndex(frequency, d) = i

\* the period with index i adds 1 to the running counter: it is met or, for a
\* lenient habit, holds no log at all
PeriodCounts(habit, M, L, i) ==
    \/ HasDateAt(habit.frequency, M, i)
    \/ ~habit.is_required /\ ~HasDateAt(habit.frequency, L, i)

\* the running counter after the period with index i, the walk starting at index i0
RunningCounter(habit, M, L, i0, i) ==
    CHOOSE n \in 0..(i - i0 + 1) :
        /\ \A k \in 0..(n - 1) : PeriodCounts(habit, M, L, i - k)
        /\ n = i - i0 + 1 \/ ~PeriodCounts(habit, M, L, i - n)

\* the maximum of the running counter over the periods from the one of the earliest
\* met date to the one of the latest met date
MaxRunningCounter(habit, M, L) ==
    LET i0 == PeriodIndex(habit.frequency, SetMin(M))
        i1 == PeriodIndex(habit.frequency, SetMax(M))
    IN  SetMax({RunningCounter(habit, M, L, i0, i) : i \in i0..i1})

\* length of the longest run of consecutive periods that each contain a date of M
LongestMetRun(frequency, M) ==
    LET i0 == PeriodIndex(frequency, SetMin(M))
        i1 == PeriodIndex(frequency, SetMax(M))
    IN  SetMax({n \in 1..(i1 - i0 + 1) :
                   \E i \in i0..i1 : \A k \in 0..(n - 1) : HasDateAt(frequency, M, i + k)})

\* C26: longestStreak is 0 when datesMet is empty; otherwise it is the maximum of
\* the running counter over the periods from the earliest to the latest met date;
\* for a strict habit this is the longest run of consecutive met periods, at least 1.
C26_LongestStreakIsMaxRunningCounter ==
    StreaksReturned =>
       /\ call.dates_met = {} => Val(ret)[2] = 0
       /\ call.dates_met # {} =>
             /\ Val(ret)[2] = MaxRunningCounter(call.habit, call.dates_met,
                                                call.all_log_dates)
             /\ call.habit.is_required =>
                   /\ Val(ret)[2] = LongestMetRun(call.habit.frequency, call.dates_met)
                   /\ Val(ret)[2] >= 1

\* a lenient habit whose two met periods are joined by unlogged ones into one run
C26_Witness ==
    /\ StreaksReturned
    /\ ~call.habit.is_required
    /\ Cardinality(call.dates_met) = 2
    /\ Val(ret)[2] >= 3

\* C27: the currentStreak reported is never greater than the longestStreak reported
\* in the same result.
C27_CurrentStreakAtMostLongest ==
    StreaksReturned => Val(ret)[1] <= Val(ret)[2]

\* C28: no increment is lost by concurrent modify calls: a modify that adds a to an
\* existing log and succeeds leaves the log with the value stored just before its
\* write plus a, whatever ran between its read and its write.
C28_NoIncrementLost ==
    [][ \A req \in BagToSet(reqs) :
          (/\ req.args.op = "modify"
           /\ req.existing # None
           /\ LogFinish(req)
           /\ Val(last').outcome = "ok") =>
             \A l \in logs :
                l.id = Val(req.existing).id =>
                   \E l2 \in logs' : l2.id = l.id /\ l2.value = l.value + req.args.value
      ]_vars

\* C30: two-step login.  A request passes require_auth only with a token whose mfa
\* flag is true; such a token is granted only by verify_2fa given an issued token
\* with mfa false (which only login grants, for the correct password) and the valid
\* TOTP code; the temporary token never passes require_auth, a wrong password or a
\* wrong code yields no token, and verify_2fa refuses a token with mfa true.
C30_TwoStepLogin ==
    [][ now' = now =>
          LET r == Val(last')
          IN  /\ issued' \subseteq
                    issued \cup (IF r.granted = None THEN {} ELSE {Val(r.granted)})
              /\ (r.op = "require_auth" /\ r.outcome = "ok") =>
                    (Val(r.token).mfa = Some(TRUE) /\ Val(r.token) \in issued)
              /\ (r.granted # None /\ Val(r.granted).mfa = Some(TRUE)) =>
                    /\ r.op = "verify_2fa"
                    /\ Val(r.token) \in issued
                    /\ Val(r.token).mfa = Some(FALSE)
                    /\ r.secret = TotpNow
              /\ (r.granted # None /\ Val(r.granted).mfa # Some(TRUE)) =>
                    (r.op = "login" /\ r.secret = Password)
              /\ (r.op = "require_auth" /\ Val(r.token).mfa = Some(FALSE)) =>
                    r.outcome = "401"
              /\ (r.op = "login" /\ r.secret # Password) =>
                    (r.granted = None /\ issued' = issued)
              /\ (r.op = "verify_2fa" /\ r.secret # TotpNow) =>
                    (r.granted = None /\ issued' = issued)
              /\ (r.op = "verify_2fa" /\ Val(r.token).mfa = Some(TRUE)) =>
                    (r.granted = None /\ r.outcome = "401")
      ]_vars

\* a request has passed require_auth, with a token verify_2fa granted
C30_Witness ==
    /\ last # None
    /\ Val(last).op = "require_auth"
    /\ Val(last).outcome = "ok"
    /\ Val(Val(last).token) \in issued

====
